---- MODULE Spec2Model ----
(***************************************************************************)
(* Model of the day-by-day trade simulation of Trade_4U:                   *)
(*   src/backtester.py  Backtester.run_backtest / Backtester.simulate_day  *)
(*   src/strategy.py    TradingStrategy                                    *)
(*   src/indicators.py  session predicates, opening range, breakout        *)
(*                                                                         *)
(* Timestamps are minutes since midnight of day 0 (UTC); prices are        *)
(* integers; position sizes and PnL are exact rationals <<num, den>>       *)
(* (the Python floats without their rounding).  The rolling indicators     *)
(* (ATR, ADX, volume SMA) are read by the strategy only at the last bar of *)
(* the LTF prefix; their values at that bar are inputs of the candle step. *)
(***************************************************************************)
EXTENDS Integers, Sequences, FiniteSets, TLC

\* ------------------------------------------------------------------ bounds
MaxDays == 2          \* calendar days in the LTF series
MaxCap == 2           \* largest max_daily_trades tried
MaxCandles == 3       \* candles in the LTF series from the first simulated day on
MaxLedger == 3        \* records in a ledger given to the metrics

\* minutes of the day at which an LTF candle may exist:
\* 11:00, 11:30, 12:05, 13:00, 17:00
Times == {660, 690, 725, 780, 1020}
Prices == 99..101

\* ------------------------------------------------------------------ exact rationals
Abs(x) == IF x < 0 THEN -x ELSE x

RECURSIVE GCD(_, _)
GCD(a, b) == IF b = 0 THEN a ELSE GCD(b, a % b)

\* q = <<n, d>> with d > 0, in lowest terms
Rat(n, d) ==
    LET s == IF d < 0 THEN -1 ELSE 1
        g == GCD(Abs(n), Abs(d))
    IN  <<(s * n) \div g, (s * d) \div g>>

RInt(n) == <<n, 1>>
RAdd(p, q) == Rat(p[1] * q[2] + q[1] * p[2], p[2] * q[2])
RMulInt(k, q) == Rat(k * q[1], q[2])
RLess(p, q) == p[1] * q[2] < q[1] * p[2]
RLeq(p, q) == p[1] * q[2] <= q[1] * p[2]
RMin(p, q) == IF RLess(q, p) THEN q ELSE p
RAbs(p) == <<Abs(p[1]), p[2]>>
RDivInt(p, k) == Rat(p[1], p[2] * k)
RDiv(p, q) == Rat(p[1] * q[2], p[2] * q[1])

\* ------------------------------------------------------------------ values
None == [is_none |-> TRUE]

\* the undefined value (numpy nan); prices and indicator values are not negative
NaN == 0 - 1
IsNaN(x) == x = NaN

\* a value no comparison or arithmetic is defined on (None, a string): using it
\* raises TypeError
Bad == 0 - 2
IsBad(x) == x = Bad

\* <<ATR(14), ADX(14)>> at the last bar.  adx() smooths the same true range
\* over the same window as atr() and divides by it (indicators.py 54-63), so
\* an undefined or zero ATR leaves the ADX undefined.
AtrAdx == {<<1, 15>>, <<1, 25>>, <<0, NaN>>, <<NaN, NaN>>}

HourOf(ts) == (ts % 1440) \div 60
TimeOfDay(ts) == ts % 1440
DateOf(ts) == ts \div 1440

VARIABLES
    config,             \* TradingStrategy configuration (strategy.py 20-45)
    pc,                 \* "start": before simulate_day of the next day; "loop"; "done";
                        \* SpecCalls: "call", "returned"
    day,                \* index of the day being simulated (0 before the first)
    timestamp,          \* timestamp of the last candle iterated (0: none yet today)
    last_close,         \* candle['close'] of that candle
    broke,              \* the candle loop was left: break of line 100, or exception
    current_trade,      \* simulate_day local: None or the open trade
    break_even_moved,   \* simulate_day local
    signal,             \* simulate_day local: last result of get_trade_signal
    daily_pnl,          \* strategy.daily_pnl
    daily_trades,       \* strategy.daily_trades
    trades,             \* Backtester.trades, the ledger
    ltf_len,            \* len(ltf_data[index <= timestamp]), saturated at MinLtfBars
    htf_seen,           \* htf_data[index <= timestamp] is not empty
    orb_high,           \* max high over the prefix bars with time in [11:00, 12:00]
    orb_low,            \* min low over those bars (NaN: no such bar)
    iterated,           \* number of candles iterated so far by the run
    printed_errors,     \* days for which "Error simulating day" was printed
    args,               \* SpecCalls: the arguments of the strategy call
    ret,                \* SpecCalls: its return value (None before the call);
                        \* otherwise what run_backtest has returned or raised
    fetched,            \* main: which of htf_data, ltf_data came back empty
    exit_status,        \* main: exit status of the process (None while it runs)
    trades_csv,         \* main: content of trades.csv (None: no such file)
    printed_summaries   \* the summaries display_summary has printed, in order

vars == <<config, pc, day, timestamp, last_close, broke, current_trade,
          break_even_moved, signal, daily_pnl, daily_trades, trades,
          ltf_len, htf_seen, orb_high, orb_low, iterated, printed_errors,
          args, ret, fetched, exit_status, trades_csv, printed_summaries>>

\* everything but pc and what only main and display_summary write
runVars == <<config, day, timestamp, last_close, broke, current_trade,
             break_even_moved, signal, daily_pnl, daily_trades, trades,
             ltf_len, htf_seen, orb_high, orb_low, iterated, printed_errors,
             args, ret>>

\* what only main and display_summary write
mainVars == <<fetched, exit_status, trades_csv, printed_summaries>>

\* ------------------------------------------------------------------ program constants
orb_start == 11         \* strategy.py 36, indicators.py 218
orb_end == 12           \* strategy.py 37
entry_start == 11       \* strategy.py 38, indicators.py 208
entry_end == 13         \* strategy.py 39
session_end == 17       \* strategy.py 40
fallback_hour == 13     \* strategy.py 250
MinLtfBars == 50        \* backtester.py 106

\* Configurations tried.  risk_usdt, tp_multiplier and adx_min are the command
\* line defaults; the target and the floor are chosen so that a single trade
\* can land exactly on them.
DefaultConfig ==
    [ risk_usdt        |-> 20,
      daily_target     |-> 40,
      daily_max_loss   |-> -20,
      max_daily_trades |-> 1,
      force_one_trade  |-> TRUE,
      fallback_mode    |-> "BestOfBoth",
      adx_min          |-> 20,
      min_rr_ok        |-> <<9, 5>>,
      atr_mult_orb     |-> 1,
      atr_mult_fallback |-> 1,
      tp_multiplier    |-> 2 ]

\* the default with every daily cap up to MaxCap, without force_one_trade, and
\* with a zero ATR multiplier (every stop is at the entry price)
Configs ==
    {[DefaultConfig EXCEPT !.max_daily_trades = c] : c \in 1..MaxCap}
    \cup {[DefaultConfig EXCEPT !.force_one_trade = FALSE],
          [DefaultConfig EXCEPT !.atr_mult_orb = 0]}

\* the keys __init__ reads from its config dict (strategy.py 23-33)
ConfigKeys ==
    {"signal_tf", "risk_usdt", "daily_target", "daily_max_loss", "force_one_trade",
     "fallback_mode", "adx_min", "min_rr_ok", "atr_mult_orb", "atr_mult_fallback",
     "tp_multiplier"}

KeyError == [raised |-> "KeyError"]

\* strategy.py 20-45: config[key] raises KeyError for a missing key; the values
\* are stored as they come, and max_daily_trades is set to 1
TradingStrategy(cfg) ==
    IF ~(ConfigKeys \subseteq DOMAIN cfg) THEN KeyError
    ELSE [ risk_usdt        |-> cfg.risk_usdt,
           daily_target     |-> cfg.daily_target,
           daily_max_loss   |-> cfg.daily_max_loss,
           max_daily_trades |-> 1,
           force_one_trade  |-> cfg.force_one_trade,
           fallback_mode    |-> cfg.fallback_mode,
           adx_min          |-> cfg.adx_min,
           min_rr_ok        |-> cfg.min_rr_ok,
           atr_mult_orb     |-> cfg.atr_mult_orb,
           atr_mult_fallback |-> cfg.atr_mult_fallback,
           tp_multiplier    |-> cfg.tp_multiplier ]

\* variant: the entry window stays open one hour longer
is_entry_window_one_more_hour(time_utc) ==
    entry_start <= HourOf(time_utc) /\ HourOf(time_utc) < entry_end + 1

\* ------------------------------------------------------------------ indicators.py
is_entry_window(time_utc) ==
    entry_start <= HourOf(time_utc) /\ HourOf(time_utc) < entry_end

is_orb_window(time_utc) ==
    orb_start <= HourOf(time_utc) /\ HourOf(time_utc) < orb_end

\* mask of opening_range_high / opening_range_low: time of day in
\* [start_time, end_time], both ends included, whatever the date
InOpeningRange(ts) ==
    orb_start * 60 <= TimeOfDay(ts) /\ TimeOfDay(ts) <= orb_end * 60

\* opening_range_high over the prefix extended by one bar
opening_range_high(prev, ts, high) ==
    IF ~InOpeningRange(ts) THEN prev
    ELSE IF IsNaN(prev) THEN high
    ELSE IF high > prev THEN high ELSE prev

opening_range_low(prev, ts, low) ==
    IF ~InOpeningRange(ts) THEN prev
    ELSE IF IsNaN(prev) THEN low
    ELSE IF low < prev THEN low ELSE prev

\* variant: a close on the edge of the opening range counts as a breakout
opening_range_breakout_on_edge(close, orbh, orbl, side) ==
    IF side = "long" THEN close >= orbh
    ELSE IF side = "short" THEN close <= orbl
    ELSE FALSE

opening_range_breakout(close, orbh, orbl, side) ==
    IF side = "long" THEN close > orbh
    ELSE IF side = "short" THEN close < orbl
    ELSE FALSE

\* ------------------------------------------------------------------ strategy.py
is_daily_target_reached(pnl) == RLeq(RInt(config.daily_target), pnl)

is_daily_loss_limit_reached(pnl) == RLeq(pnl, RInt(config.daily_max_loss))

\* variant: the trade count is not consulted
can_trade_today_no_cap(pnl, ntrades) ==
    ~is_daily_target_reached(pnl) /\ ~is_daily_loss_limit_reached(pnl)

\* variant: the target and the floor are not consulted
can_trade_today_no_limits(pnl, ntrades) ==
    ntrades < config.max_daily_trades

\* variant: trading goes on while the PnL sits exactly on the target or floor
can_trade_today_on_limit(pnl, ntrades) ==
    /\ ntrades < config.max_daily_trades
    /\ RLeq(pnl, RInt(config.daily_target))
    /\ RLeq(RInt(config.daily_max_loss), pnl)

can_trade_today(pnl, ntrades) ==
    /\ ntrades < config.max_daily_trades
    /\ ~is_daily_target_reached(pnl)
    /\ ~is_daily_loss_limit_reached(pnl)

\* variant: the size is risk / |entry - stop| without the 1% cap
calculate_position_size_uncapped(entry_price, stop_loss) ==
    LET price_diff == Abs(entry_price - stop_loss)
    IN  IF price_diff = 0 THEN RInt(0)
        ELSE Rat(config.risk_usdt, price_diff)

\* min(risk / |entry - stop|, risk / (entry * 0.01)), 0 for a degenerate stop
calculate_position_size(entry_price, stop_loss) ==
    LET price_diff == Abs(entry_price - stop_loss)
    IN  IF price_diff = 0 THEN RInt(0)
        ELSE RMin(Rat(config.risk_usdt, price_diff),
                  Rat(100 * config.risk_usdt, entry_price))

\* arithmetic on an undefined ATR gives an undefined price
get_stop_loss_price(entry_price, side, atr_value, is_orb) ==
    LET atr_mult == IF is_orb THEN config.atr_mult_orb ELSE config.atr_mult_fallback
    IN  IF IsNaN(atr_value) THEN NaN
        ELSE IF side = "long" THEN entry_price - atr_value * atr_mult
        ELSE entry_price + atr_value * atr_mult

get_take_profit_price(entry_price, stop_loss, side) ==
    LET reward == Abs(entry_price - stop_loss) * config.tp_multiplier
    IN  IF IsNaN(stop_loss) THEN NaN
        ELSE IF side = "long" THEN entry_price + reward ELSE entry_price - reward

\* variant: the breakout of the opening range is not required
check_orb_conditions_no_breakout(ltf, side) ==
    IF ~is_orb_window(ltf.ts) THEN [ok |-> FALSE]
    ELSE IF IsNaN(ltf.orb_high) \/ IsNaN(ltf.orb_low) THEN [ok |-> FALSE]
    ELSE IF ltf.volume_ok /\ ~IsNaN(ltf.adx) /\ ltf.adx >= config.adx_min
         THEN LET sl == get_stop_loss_price(ltf.close, side, ltf.atr, TRUE)
              IN  [ok |-> TRUE, entry_price |-> ltf.close, stop_loss |-> sl,
                   take_profit |-> get_take_profit_price(ltf.close, sl, side)]
    ELSE [ok |-> FALSE]

\* variant: the ADX confirmation is dropped, volume alone confirms
check_orb_conditions_volume_only(ltf, side) ==
    IF ~is_orb_window(ltf.ts) THEN [ok |-> FALSE]
    ELSE IF IsNaN(ltf.orb_high) \/ IsNaN(ltf.orb_low) THEN [ok |-> FALSE]
    ELSE IF ~opening_range_breakout(ltf.close, ltf.orb_high, ltf.orb_low, side)
         THEN [ok |-> FALSE]
    ELSE IF ltf.volume_ok
         THEN LET sl == get_stop_loss_price(ltf.close, side, ltf.atr, TRUE)
              IN  [ok |-> TRUE, entry_price |-> ltf.close, stop_loss |-> sl,
                   take_profit |-> get_take_profit_price(ltf.close, sl, side)]
    ELSE [ok |-> FALSE]

\* ltf: what check_orb_conditions reads of the LTF prefix: the timestamp and the
\* close of its last bar, the opening range over the prefix, and the indicator
\* values at the last bar.
check_orb_conditions(ltf, side) ==
    IF ~is_orb_window(ltf.ts) THEN [ok |-> FALSE]
    ELSE IF IsNaN(ltf.orb_high) \/ IsNaN(ltf.orb_low) THEN [ok |-> FALSE]
    ELSE IF ~opening_range_breakout(ltf.close, ltf.orb_high, ltf.orb_low, side)
         THEN [ok |-> FALSE]
    ELSE IF ltf.volume_ok /\ ~IsNaN(ltf.adx) /\ ltf.adx >= config.adx_min
         THEN LET sl == get_stop_loss_price(ltf.close, side, ltf.atr, TRUE)
              IN  [ok |-> TRUE, entry_price |-> ltf.close, stop_loss |-> sl,
                   take_profit |-> get_take_profit_price(ltf.close, sl, side)]
    ELSE [ok |-> FALSE]

\* ltf.ema15 places the last close against EMA15: "below" (close under
\* 0.999 * ema15), "near" (within the two tolerances), "above" (close over
\* 1.001 * ema15) or "nan" (EMA15 undefined: both comparisons are false);
\* ltf.engulfing is the result of engulfing_pattern.  An undefined stop makes
\* risk undefined, risk > 0 false and the ratio 0.
check_ema15_pullback_conditions(ltf, side) ==
    LET pullback_ok == IF side = "long" THEN ltf.ema15 \in {"below", "near"}
                       ELSE ltf.ema15 \in {"near", "above"}
        engulfing_ok == IF side = "long" THEN ltf.engulfing = "bullish"
                        ELSE ltf.engulfing = "bearish"
        sl == get_stop_loss_price(ltf.close, side, ltf.atr, FALSE)
        tp == get_take_profit_price(ltf.close, sl, side)
        risk == IF IsNaN(sl) THEN NaN ELSE Abs(ltf.close - sl)
        reward == IF IsNaN(tp) THEN NaN ELSE Abs(tp - ltf.close)
        rr_ratio == IF ~IsNaN(risk) /\ risk > 0 THEN Rat(reward, risk) ELSE RInt(0)
    IN  IF ~pullback_ok \/ ~engulfing_ok THEN [ok |-> FALSE]
        ELSE IF ~ltf.volume_ok THEN [ok |-> FALSE]
        ELSE IF RLeq(config.min_rr_ok, rr_ratio)
             THEN [ok |-> TRUE, entry_price |-> ltf.close, stop_loss |-> sl,
                   take_profit |-> tp]
        ELSE [ok |-> FALSE]

TradeIntent(side, strategy, p) ==
    [side |-> side, strategy |-> strategy, entry_price |-> p.entry_price,
     stop_loss |-> p.stop_loss, take_profit |-> p.take_profit]

\* htf: what get_macro_bias reads of the HTF prefix: whether it has a close
\* column at all, whether it has 200 bars, and where its last close and its
\* EMA50 lie against its EMA200
get_macro_bias(htf) ==
    IF ~htf.len200 THEN "neutral"
    ELSE IF htf.close = "above" /\ htf.ema_50 = "above" THEN "long"
    ELSE IF htf.close = "below" /\ htf.ema_50 = "below" THEN "short"
    ELSE "neutral"

\* variant: only the side of the macro bias is tried (both when neutral)
get_trade_signal_bias_filtered(ltf, htf, pnl, ntrades) ==
    IF ~can_trade_today(pnl, ntrades) THEN None
    ELSE IF ~is_entry_window(ltf.ts) THEN None
    ELSE IF ~htf.has_close THEN None
    ELSE IF get_macro_bias(htf) # "short" /\ check_orb_conditions(ltf, "long").ok
         THEN TradeIntent("long", "orb", check_orb_conditions(ltf, "long"))
    ELSE IF get_macro_bias(htf) # "long" /\ check_orb_conditions(ltf, "short").ok
         THEN TradeIntent("short", "orb", check_orb_conditions(ltf, "short"))
    ELSE None

\* variant: the entry window is not consulted
get_trade_signal_no_window(ltf, htf, pnl, ntrades) ==
    IF ~can_trade_today(pnl, ntrades) THEN None
    ELSE IF ~htf.has_close THEN None
    ELSE IF check_orb_conditions(ltf, "long").ok
         THEN TradeIntent("long", "orb", check_orb_conditions(ltf, "long"))
    ELSE IF check_orb_conditions(ltf, "short").ok
         THEN TradeIntent("short", "orb", check_orb_conditions(ltf, "short"))
    ELSE IF /\ config.force_one_trade
            /\ HourOf(ltf.ts) >= fallback_hour
            /\ config.fallback_mode \in {"EMA15_pullback", "BestOfBoth"}
    THEN IF check_ema15_pullback_conditions(ltf, "long").ok
         THEN TradeIntent("long", "ema15_pullback",
                          check_ema15_pullback_conditions(ltf, "long"))
         ELSE IF check_ema15_pullback_conditions(ltf, "short").ok
         THEN TradeIntent("short", "ema15_pullback",
                          check_ema15_pullback_conditions(ltf, "short"))
         ELSE None
    ELSE None

\* get_macro_bias raises on an HTF prefix without a close column; the handler
\* of lines 267-269 returns None.  The bias itself is computed and not read.
get_trade_signal(ltf, htf, pnl, ntrades) ==
    IF ~can_trade_today(pnl, ntrades) THEN None
    ELSE IF ~is_entry_window(ltf.ts) THEN None
    ELSE IF ~htf.has_close THEN None
    ELSE IF check_orb_conditions(ltf, "long").ok
         THEN TradeIntent("long", "orb", check_orb_conditions(ltf, "long"))
    ELSE IF check_orb_conditions(ltf, "short").ok
         THEN TradeIntent("short", "orb", check_orb_conditions(ltf, "short"))
    ELSE IF /\ config.force_one_trade
            /\ HourOf(ltf.ts) >= fallback_hour
            /\ config.fallback_mode \in {"EMA15_pullback", "BestOfBoth"}
    THEN IF check_ema15_pullback_conditions(ltf, "long").ok
         THEN TradeIntent("long", "ema15_pullback",
                          check_ema15_pullback_conditions(ltf, "long"))
         ELSE IF check_ema15_pullback_conditions(ltf, "short").ok
         THEN TradeIntent("short", "ema15_pullback",
                          check_ema15_pullback_conditions(ltf, "short"))
         ELSE None
    ELSE None

NoExit == [exit |-> FALSE, reason |-> "none", price |-> 0]

\* variant: a stop hit is reported without a reason
should_exit_trade_unnamed_stop(trade, current_price, current_time, is_break_even) ==
    IF HourOf(current_time) >= session_end
    THEN [exit |-> TRUE, reason |-> "session_end", price |-> current_price]
    ELSE IF (trade.side = "long" /\ current_price <= trade.stop_loss)
            \/ (trade.side # "long" /\ current_price >= trade.stop_loss)
    THEN [exit |-> TRUE, reason |-> "none", price |-> current_price]
    ELSE NoExit

\* variant: the break-even test comes before the stop and the target
should_exit_trade_break_even_first(trade, current_price, current_time, is_break_even) ==
    IF HourOf(current_time) >= session_end
    THEN [exit |-> TRUE, reason |-> "session_end", price |-> current_price]
    ELSE IF IsBad(current_price)
    THEN [exit |-> TRUE, reason |-> "error", price |-> current_price]
    ELSE IF trade.side = "long"
    THEN IF is_break_even /\ current_price >= trade.break_even_price
         THEN [exit |-> TRUE, reason |-> "break_even", price |-> current_price]
         ELSE IF current_price <= trade.stop_loss
         THEN [exit |-> TRUE, reason |-> "stop_loss", price |-> current_price]
         ELSE IF current_price >= trade.take_profit
         THEN [exit |-> TRUE, reason |-> "take_profit", price |-> current_price]
         ELSE NoExit
    ELSE IF is_break_even /\ current_price <= trade.break_even_price
         THEN [exit |-> TRUE, reason |-> "break_even", price |-> current_price]
         ELSE IF current_price >= trade.stop_loss
         THEN [exit |-> TRUE, reason |-> "stop_loss", price |-> current_price]
         ELSE IF current_price <= trade.take_profit
         THEN [exit |-> TRUE, reason |-> "take_profit", price |-> current_price]
         ELSE NoExit

\* variant: no exit at the break-even trigger price
should_exit_trade_no_break_even(trade, current_price, current_time, is_break_even) ==
    IF HourOf(current_time) >= session_end
    THEN [exit |-> TRUE, reason |-> "session_end", price |-> current_price]
    ELSE IF IsBad(current_price)
    THEN [exit |-> TRUE, reason |-> "error", price |-> current_price]
    ELSE IF trade.side = "long"
    THEN IF current_price <= trade.stop_loss
         THEN [exit |-> TRUE, reason |-> "stop_loss", price |-> current_price]
         ELSE IF current_price >= trade.take_profit
         THEN [exit |-> TRUE, reason |-> "take_profit", price |-> current_price]
         ELSE NoExit
    ELSE IF current_price >= trade.stop_loss
         THEN [exit |-> TRUE, reason |-> "stop_loss", price |-> current_price]
         ELSE IF current_price <= trade.take_profit
         THEN [exit |-> TRUE, reason |-> "take_profit", price |-> current_price]
         ELSE NoExit

\* variant: the stop is hit only by a price strictly beyond it
should_exit_trade_stop_strict(trade, current_price, current_time, is_break_even) ==
    IF HourOf(current_time) >= session_end
    THEN [exit |-> TRUE, reason |-> "session_end", price |-> current_price]
    ELSE IF IsBad(current_price)
    THEN [exit |-> TRUE, reason |-> "error", price |-> current_price]
    ELSE IF trade.side = "long"
    THEN IF current_price < trade.stop_loss
         THEN [exit |-> TRUE, reason |-> "stop_loss", price |-> current_price]
         ELSE IF current_price >= trade.take_profit
         THEN [exit |-> TRUE, reason |-> "take_profit", price |-> current_price]
         ELSE IF is_break_even /\ current_price >= trade.break_even_price
         THEN [exit |-> TRUE, reason |-> "break_even", price |-> current_price]
         ELSE NoExit
    ELSE IF current_price > trade.stop_loss
         THEN [exit |-> TRUE, reason |-> "stop_loss", price |-> current_price]
         ELSE IF current_price <= trade.take_profit
         THEN [exit |-> TRUE, reason |-> "take_profit", price |-> current_price]
         ELSE IF is_break_even /\ current_price <= trade.break_even_price
         THEN [exit |-> TRUE, reason |-> "break_even", price |-> current_price]
         ELSE NoExit

\* comparing a price that is not a number raises; the handler of lines
\* 296-298 forces the exit
should_exit_trade(trade, current_price, current_time, is_break_even) ==
    IF HourOf(current_time) >= session_end
    THEN [exit |-> TRUE, reason |-> "session_end", price |-> current_price]
    ELSE IF IsBad(current_price)
    THEN [exit |-> TRUE, reason |-> "error", price |-> current_price]
    ELSE IF trade.side = "long"
    THEN IF current_price <= trade.stop_loss
         THEN [exit |-> TRUE, reason |-> "stop_loss", price |-> current_price]
         ELSE IF current_price >= trade.take_profit
         THEN [exit |-> TRUE, reason |-> "take_profit", price |-> current_price]
         ELSE IF is_break_even /\ current_price >= trade.break_even_price
         THEN [exit |-> TRUE, reason |-> "break_even", price |-> current_price]
         ELSE NoExit
    ELSE IF current_price >= trade.stop_loss
         THEN [exit |-> TRUE, reason |-> "stop_loss", price |-> current_price]
         ELSE IF current_price <= trade.take_profit
         THEN [exit |-> TRUE, reason |-> "take_profit", price |-> current_price]
         ELSE IF is_break_even /\ current_price <= trade.break_even_price
         THEN [exit |-> TRUE, reason |-> "break_even", price |-> current_price]
         ELSE NoExit

\* variant: the long formula is used for both sides
calculate_trade_pnl_long_formula(trade, exit_price, exit_reason) ==
    RMulInt(exit_price - trade.entry_price, trade.position_size)

\* the product with a price that is not a number raises; the handler of lines
\* 314-316 returns 0.0
calculate_trade_pnl(trade, exit_price, exit_reason) ==
    IF IsBad(exit_price) THEN RInt(0)
    ELSE IF trade.side = "long"
    THEN RMulInt(exit_price - trade.entry_price, trade.position_size)
    ELSE RMulInt(trade.entry_price - exit_price, trade.position_size)

\* ------------------------------------------------------------------ backtester.py
\* variant: entry and exit time change places
TradeRecord_times_swapped(date, trade, exit_time, exit_price, exit_reason, pnl) ==
    [day_key       |-> date,
     entry_time    |-> exit_time,
     side          |-> trade.side,
     entry_price   |-> trade.entry_price,
     sl            |-> trade.stop_loss,
     tp            |-> trade.take_profit,
     exit_time     |-> trade.entry_time,
     exit_price    |-> exit_price,
     exit_reason   |-> exit_reason,
     pnl_usdt      |-> pnl,
     position_size |-> trade.position_size,
     strategy_used |-> trade.strategy,
     used_fallback |-> trade.strategy # "orb"]

\* the trade_record dict of lines 75-89 and 152-166
TradeRecord(date, trade, exit_time, exit_price, exit_reason, pnl) ==
    [day_key       |-> date,
     entry_time    |-> trade.entry_time,
     side          |-> trade.side,
     entry_price   |-> trade.entry_price,
     sl            |-> trade.stop_loss,
     tp            |-> trade.take_profit,
     exit_time     |-> exit_time,
     exit_price    |-> exit_price,
     exit_reason   |-> exit_reason,
     pnl_usdt      |-> pnl,
     position_size |-> trade.position_size,
     strategy_used |-> trade.strategy,
     used_fallback |-> trade.strategy # "orb"]

\* the current_trade dict of lines 119-128
OpenTrade(ts, sig, position_size) ==
    [entry_time       |-> ts,
     side             |-> sig.side,
     entry_price      |-> sig.entry_price,
     stop_loss        |-> sig.stop_loss,
     take_profit      |-> sig.take_profit,
     position_size    |-> position_size,
     strategy         |-> sig.strategy,
     break_even_price |-> sig.entry_price]

\* L: the locals of simulate_day and the fields it writes:
\*    current_trade, break_even_moved, signal, trades, daily_pnl, daily_trades, broke

\* variant: the slot is not cleared after the exit
RecordExit_slot_kept(L, rec) ==
    [L EXCEPT !.trades = Append(@, rec),
              !.daily_pnl = RAdd(@, rec.pnl_usdt),
              !.daily_trades = @ + 1,
              !.broke = ~can_trade_today(RAdd(L.daily_pnl, rec.pnl_usdt),
                                         L.daily_trades + 1)]

\* lines 91-100: the record is appended, the counters updated, the slot
\* cleared, and the loop left when the daily limits are reached
RecordExit(L, rec) ==
    [L EXCEPT !.trades = Append(@, rec),
              !.daily_pnl = RAdd(@, rec.pnl_usdt),
              !.daily_trades = @ + 1,
              !.current_trade = None,
              !.break_even_moved = FALSE,
              !.broke = ~can_trade_today(RAdd(L.daily_pnl, rec.pnl_usdt),
                                         L.daily_trades + 1)]

\* variant: a stop or target exit is recorded at the level, not at the close
CloseOnExit_at_level(L, date, ts, r) ==
    IF ~r.exit THEN L
    ELSE LET p == IF r.reason = "stop_loss" THEN L.current_trade.stop_loss
                  ELSE IF r.reason = "take_profit" THEN L.current_trade.take_profit
                  ELSE r.price
         IN  RecordExit(L, TradeRecord(date, L.current_trade, ts, p, r.reason,
                            calculate_trade_pnl(L.current_trade, p, r.reason)))

\* lines 70-89: r is the decision of should_exit_trade
CloseOnExit(L, date, ts, r) ==
    IF ~r.exit THEN L
    ELSE RecordExit(L, TradeRecord(date, L.current_trade, ts, r.price, r.reason,
                        calculate_trade_pnl(L.current_trade, r.price, r.reason)))

\* lines 65-100: exit check of the open trade
ExitPhase(L, date, ts, close) ==
    IF L.current_trade = None THEN L
    ELSE CloseOnExit(L, date, ts,
             should_exit_trade(L.current_trade, close, ts, L.break_even_moved))

\* line 106: the entry search is abandoned (continue) on a short LTF prefix
EntrySkipped(L, ltf) ==
    /\ L.current_trade = None
    /\ can_trade_today(L.daily_pnl, L.daily_trades)
    /\ ltf.len < MinLtfBars

\* variant: the trade is counted in daily_trades when it is opened
OpenSized_counted(L, ts, sig, position_size) ==
    IF RLess(RInt(0), position_size)
    THEN [L EXCEPT !.signal = sig,
                   !.current_trade = OpenTrade(ts, sig, position_size),
                   !.daily_trades = @ + 1]
    ELSE [L EXCEPT !.signal = sig]

\* lines 117-128: the trade is opened when its size is positive
OpenSized(L, ts, sig, position_size) ==
    IF RLess(RInt(0), position_size)
    THEN [L EXCEPT !.signal = sig,
                   !.current_trade = OpenTrade(ts, sig, position_size)]
    ELSE [L EXCEPT !.signal = sig]

\* lines 109-128: sig is the result of get_trade_signal
OpenOnSignal(L, ts, sig) ==
    IF sig = None THEN [L EXCEPT !.signal = None]
    ELSE OpenSized(L, ts, sig,
                   calculate_position_size(sig.entry_price, sig.stop_loss))

\* lines 103-128: entry search while the slot is empty
EntryPhase(L, ts, ltf, htf) ==
    IF ~(L.current_trade = None /\ can_trade_today(L.daily_pnl, L.daily_trades)) THEN L
    ELSE IF ltf.len < MinLtfBars THEN L
    ELSE OpenOnSignal(L, ts, get_trade_signal(ltf, htf, L.daily_pnl, L.daily_trades))

\* variant: the stop is moved to entry without waiting for +1R
BreakEvenPhase_no_target(L, close) ==
    IF L.current_trade = None \/ L.break_even_moved THEN L
    ELSE [L EXCEPT !.current_trade.stop_loss = L.current_trade.entry_price,
                   !.break_even_moved = TRUE]

\* variant: the break-even move also pulls the take-profit to the +1R level
BreakEvenPhase_moves_tp(L, close) ==
    IF L.current_trade = None \/ L.break_even_moved THEN L
    ELSE LET t == L.current_trade
             target == IF t.side = "long"
                       THEN t.entry_price + (t.entry_price - t.stop_loss)
                       ELSE t.entry_price - (t.stop_loss - t.entry_price)
             reached == IF t.side = "long" THEN close >= target ELSE close <= target
         IN  IF reached
             THEN [L EXCEPT !.current_trade.stop_loss = t.entry_price,
                            !.current_trade.take_profit = target,
                            !.break_even_moved = TRUE]
             ELSE L

\* lines 131-143: break-even move after +1R
BreakEvenPhase(L, close) ==
    IF L.current_trade = None \/ L.break_even_moved THEN L
    ELSE LET t == L.current_trade
             reached ==
                 IF t.side = "long"
                 THEN close >= t.entry_price + (t.entry_price - t.stop_loss)
                 ELSE close <= t.entry_price - (t.stop_loss - t.entry_price)
         IN  IF reached
             THEN [L EXCEPT !.current_trade.stop_loss = t.entry_price,
                            !.break_even_moved = TRUE]
             ELSE L

\* lines 98-143: the rest of the iteration after the exit check
AfterExit(L1, ts, close, ltf, htf) ==
    IF L1.broke THEN L1
    ELSE IF EntrySkipped(L1, ltf) THEN L1
    ELSE BreakEvenPhase(EntryPhase(L1, ts, ltf, htf), close)

\* variant: the iteration goes on with an empty HTF prefix
LoopBody_htf_unchecked(L, date, ts, close, htf_empty, ltf, htf) ==
    AfterExit(ExitPhase(L, date, ts, close), ts, close, ltf, htf)

\* lines 56-143: one iteration of the candle loop
LoopBody(L, date, ts, close, htf_empty, ltf, htf) ==
    IF htf_empty THEN L
    ELSE AfterExit(ExitPhase(L, date, ts, close), ts, close, ltf, htf)

\* variant: the handler keeps the open trade for the end-of-day close
Abandon_keeps_trade(L) == [L EXCEPT !.broke = TRUE]

\* lines 172-173: an exception leaves the try block; the locals current_trade
\* and break_even_moved are lost, the ledger and the counters are as they were
Abandon(L) ==
    [L EXCEPT !.current_trade = None,
              !.break_even_moved = FALSE,
              !.broke = TRUE]

\* variant: the ledger is written but the daily counters are not
RecordSessionEnd_no_counters(L, rec) ==
    [L EXCEPT !.trades = Append(@, rec)]

\* variant: the record is put at the head of the ledger
RecordSessionEnd_prepends(L, rec) ==
    [L EXCEPT !.trades = <<rec>> \o @,
              !.daily_pnl = RAdd(@, rec.pnl_usdt),
              !.daily_trades = @ + 1]

\* lines 168-170
RecordSessionEnd(L, rec) ==
    [L EXCEPT !.trades = Append(@, rec),
              !.daily_pnl = RAdd(@, rec.pnl_usdt),
              !.daily_trades = @ + 1]

\* variant: a trade still open after the last candle is dropped
CloseRemaining_discard(L, date, last_timestamp, last_candle_close) == L

\* lines 146-170: close of a trade still open after the last candle
CloseRemaining(L, date, last_timestamp, last_candle_close) ==
    IF L.current_trade = None THEN L
    ELSE RecordSessionEnd(L,
             TradeRecord(date, L.current_trade, last_timestamp, last_candle_close,
                 "session_end",
                 calculate_trade_pnl(L.current_trade, last_candle_close, "session_end")))

Locals ==
    [current_trade |-> current_trade, break_even_moved |-> break_even_moved,
     signal |-> signal, trades |-> trades, daily_pnl |-> daily_pnl,
     daily_trades |-> daily_trades, broke |-> broke]

\* ------------------------------------------------------------------ R-multiples
\* a quotient whose divisor is 0: on Python floats the division raises
\* ZeroDivisionError, on numpy floats it gives inf or nan
ZeroDivision == [division_by_zero |-> TRUE]

\* indicators.py 160-175: the winning and the losing branch hold the same
\* quotient
calculate_r_multiple(entry_price, exit_price, stop_loss, side) ==
    IF side = "long"
    THEN IF entry_price - stop_loss = 0 THEN ZeroDivision
         ELSE Rat(exit_price - entry_price, entry_price - stop_loss)
    ELSE IF stop_loss - entry_price = 0 THEN ZeroDivision
         ELSE Rat(entry_price - exit_price, stop_loss - entry_price)

\* variant: the R-multiple of a trade without risk is 0
calculate_additional_metrics_zero_r(t) ==
    [i \in DOMAIN t |->
        IF t[i].sl = t[i].entry_price THEN RInt(0)
        ELSE calculate_r_multiple(t[i].entry_price, t[i].exit_price, t[i].sl,
                                  t[i].side)]

\* backtester.py 175-193: the r_multiple column, row by row, from the record's
\* entry_price, exit_price, sl and side
calculate_additional_metrics(t) ==
    [i \in DOMAIN t |->
        calculate_r_multiple(t[i].entry_price, t[i].exit_price, t[i].sl, t[i].side)]

ZeroDivisionError == [raised |-> "ZeroDivisionError"]

\* backtester.py 35-42: what run_backtest hands back for the ledger t: the
\* frame of the records with their r_multiple column; when a row divides by
\* zero, the exception of that division or the frame with the undefined value
\* in that row, as the number type of the row decides
run_backtest(t) ==
    {[rows |-> t, r_multiple |-> calculate_additional_metrics(t)]}
    \cup (IF \E i \in DOMAIN t : calculate_additional_metrics(t)[i] = ZeroDivision
          THEN {ZeroDivisionError} ELSE {})

\* ------------------------------------------------------------------ metrics
\* backtester.py 195-281.  trades_df is rebuilt from self.trades at each call.
IsWin(r) == RLess(RInt(0), r.pnl_usdt)
IsLoss(r) == RLess(r.pnl_usdt, RInt(0))

\* Series.sum() of the pnl_usdt column
RECURSIVE SumPnl(_)
SumPnl(t) ==
    IF t = <<>> THEN RInt(0)
    ELSE RAdd(SumPnl(SubSeq(t, 1, Len(t) - 1)), t[Len(t)].pnl_usdt)

\* lines 271-279: the loop over the pnl_usdt column from row i on
RECURSIVE LossRuns(_, _, _, _)
LossRuns(t, i, consecutive_losses, max_consecutive) ==
    IF i > Len(t) THEN max_consecutive
    ELSE IF IsLoss(t[i])
    THEN LossRuns(t, i + 1, consecutive_losses + 1,
                  IF consecutive_losses + 1 > max_consecutive
                  THEN consecutive_losses + 1 ELSE max_consecutive)
    ELSE LossRuns(t, i + 1, 0, max_consecutive)

\* variant: only a winning trade ends the run, a trade of PnL 0 does not
RECURSIVE LossRuns_zero_kept(_, _, _, _)
LossRuns_zero_kept(t, i, consecutive_losses, max_consecutive) ==
    IF i > Len(t) THEN max_consecutive
    ELSE IF IsLoss(t[i])
    THEN LossRuns_zero_kept(t, i + 1, consecutive_losses + 1,
                  IF consecutive_losses + 1 > max_consecutive
                  THEN consecutive_losses + 1 ELSE max_consecutive)
    ELSE IF IsWin(t[i]) THEN LossRuns_zero_kept(t, i + 1, 0, max_consecutive)
    ELSE LossRuns_zero_kept(t, i + 1, consecutive_losses, max_consecutive)

\* variant: a trade of PnL 0 does not end the run
calculate_max_consecutive_losses_zero_kept(trades_df) ==
    IF trades_df = <<>> THEN 0 ELSE LossRuns_zero_kept(trades_df, 1, 0, 0)

\* lines 266-281
calculate_max_consecutive_losses(trades_df) ==
    IF trades_df = <<>> THEN 0 ELSE LossRuns(trades_df, 1, 0, 0)

\* the value printed for an infinite profit factor
Inf == [is_inf |-> TRUE]

\* lines 195-264: the statistics display_summary prints for the ledger t
display_summary(t) ==
    IF t = <<>> THEN [no_trades |-> TRUE]
    ELSE
    LET total_trades == Len(t)
        wins == SelectSeq(t, IsWin)
        losses == SelectSeq(t, IsLoss)
        winning_trades == Len(wins)
        losing_trades == Len(losses)
        avg_win == IF winning_trades > 0
                   THEN RDivInt(SumPnl(wins), winning_trades) ELSE RInt(0)
        avg_loss == IF losing_trades > 0
                    THEN RDivInt(SumPnl(losses), losing_trades) ELSE RInt(0)
        gross_profit == SumPnl(wins)
        gross_loss == RAbs(SumPnl(losses))
        days == {t[i].day_key : i \in DOMAIN t}
        green == {d \in days :
                     RLess(RInt(0), SumPnl(SelectSeq(t, LAMBDA r : r.day_key = d)))}
    IN  [no_trades |-> FALSE,
         total_trades |-> total_trades,
         winning_trades |-> winning_trades,
         losing_trades |-> losing_trades,
         win_rate |-> Rat(100 * winning_trades, total_trades),
         profit_factor |-> IF RLess(RInt(0), gross_loss)
                           THEN RDiv(gross_profit, gross_loss) ELSE Inf,
         expectancy |-> RDivInt(RAdd(RMulInt(winning_trades, avg_win),
                                     RMulInt(losing_trades, avg_loss)),
                                total_trades),
         avg_win |-> avg_win,
         avg_loss |-> avg_loss,
         max_consecutive_losses |-> calculate_max_consecutive_losses(t),
         green_days |-> Cardinality(green),
         total_days |-> Cardinality(days),
         green_days_pct |-> Rat(100 * Cardinality(green), Cardinality(days)),
         total_pnl |-> SumPnl(t),
         orb_trades |-> Len(SelectSeq(t, LAMBDA r : r.strategy_used = "orb")),
         fallback_trades |-> Len(SelectSeq(t, LAMBDA r : r.used_fallback)),
         exit_reasons |->
             [x \in {t[i].exit_reason : i \in DOMAIN t} |->
                  Len(SelectSeq(t, LAMBDA r : r.exit_reason = x))]]

\* ------------------------------------------------------------------ inputs
\* high and low of a bar are read only through the opening-range mask
Shapes(tod, close) ==
    IF InOpeningRange(tod)
    THEN {hl \in Prices \X Prices : hl[2] <= hl[1]}
    ELSE {<<close, close>>}

Reading(aa, volume_ok, ema15, engulfing) ==
    [atr |-> aa[1], adx |-> aa[2], volume_ok |-> volume_ok,
     ema15 |-> ema15, engulfing |-> engulfing]

\* Indicator values at the last bar of the prefix.  check_orb_conditions
\* evaluates atr, adx and volume_confirmation only past its is_orb_window test
\* (strategy.py 103), get_trade_signal evaluates the pullback only from
\* fallback_hour on (strategy.py 250); at other bars they are not computed
\* (there: ATR 1, ADX 25, volume above its average).
\* In the ORB window: every confirmation holds, or exactly one fails.  From
\* fallback_hour on: the pullback conditions hold for long, for short, or one
\* of them fails.
Indicators(tod) ==
    IF is_orb_window(tod)
    THEN {Reading(aa, TRUE, "near", "none") : aa \in AtrAdx}
         \cup {Reading(<<1, 25>>, FALSE, "near", "none")}
    ELSE IF HourOf(tod) >= fallback_hour
    THEN {Reading(<<1, 25>>, TRUE, "near", g) : g \in {"none", "bullish", "bearish"}}
         \cup {Reading(<<1, 25>>, TRUE, "above", "bullish"),
               Reading(<<1, 25>>, FALSE, "near", "bullish"),
               Reading(<<0, NaN>>, TRUE, "near", "bullish")}
    ELSE {Reading(<<1, 25>>, TRUE, "near", "none")}

\* The HTF prefix of the simulated run: fewer than 200 bars, so that
\* get_macro_bias is neutral at every candle.
HtfWindow == [has_close |-> TRUE, len200 |-> FALSE, close |-> "above", ema_50 |-> "above"]

\* The series before the first simulated candle: a full LTF history with HTF
\* bars, or an LTF history two bars short of MinLtfBars and no HTF bar yet.
\* No earlier bar lies in the opening-range mask.
Histories == {<<MinLtfBars, TRUE>>, <<MinLtfBars - 2, FALSE>>}

\* ------------------------------------------------------------------ actions
Init ==
    /\ config \in Configs
    /\ pc = "start"
    /\ day = 0
    /\ timestamp = 0
    /\ last_close = 0
    /\ broke = FALSE
    /\ current_trade = None
    /\ break_even_moved = FALSE
    /\ signal = None
    /\ daily_pnl = RInt(0)
    /\ daily_trades = 0
    /\ trades = <<>>
    /\ \E h \in Histories : ltf_len = h[1] /\ htf_seen = h[2]
    /\ orb_high = NaN
    /\ orb_low = NaN
    /\ iterated = 0
    /\ printed_errors = {}
    /\ args = None
    /\ ret = None
    /\ fetched = None
    /\ exit_status = None
    /\ trades_csv = None
    /\ printed_summaries = <<>>

\* variant: the day starts without reset_daily_state
StartDay_no_reset ==
    /\ pc = "start"
    /\ day < MaxDays
    /\ iterated < MaxCandles
    /\ pc' = "loop"
    /\ day' = day + 1
    /\ current_trade' = None
    /\ break_even_moved' = FALSE
    /\ broke' = FALSE
    /\ signal' = None
    /\ UNCHANGED <<config, timestamp, last_close, trades, ltf_len, htf_seen,
                   orb_high, orb_low, iterated, printed_errors, args, ret,
                   mainVars, daily_pnl, daily_trades>>

\* run_backtest line 33 and simulate_day lines 47-54
StartDay ==
    /\ pc = "start"
    /\ day < MaxDays
    /\ iterated < MaxCandles
    /\ pc' = "loop"
    /\ day' = day + 1
    /\ daily_pnl' = RInt(0)
    /\ daily_trades' = 0
    /\ current_trade' = None
    /\ break_even_moved' = FALSE
    /\ broke' = FALSE
    /\ signal' = None
    /\ UNCHANGED <<config, timestamp, last_close, trades, ltf_len, htf_seen,
                   orb_high, orb_low, iterated, printed_errors, args, ret, mainVars>>

\* lines 103-109 reach get_trade_signal at this candle: L1 is the state after
\* the exit check, n the length of the LTF prefix
SearchesEntry(L1, n) ==
    /\ ~L1.broke
    /\ L1.current_trade = None
    /\ can_trade_today(L1.daily_pnl, L1.daily_trades)
    /\ n >= MinLtfBars

\* the indicator values the iteration can read: none when it does not reach
\* get_trade_signal
IndicatorsRead(reads, tod) ==
    IF reads THEN Indicators(tod) ELSE {Reading(<<1, 25>>, TRUE, "near", "none")}

\* the LTF prefix as the strategy reads it
LtfPrefix(ts, close, oh, ol, ind, n) ==
    [ts |-> ts, close |-> close, orb_high |-> oh, orb_low |-> ol,
     atr |-> ind.atr, adx |-> ind.adx, volume_ok |-> ind.volume_ok,
     ema15 |-> ind.ema15, engulfing |-> ind.engulfing, len |-> n]

\* simulate_day lines 56-143 for the next candle of the day
Candle ==
    /\ pc = "loop"
    /\ iterated < MaxCandles
    /\ iterated' = iterated + 1
    /\ \E tod \in {t \in Times : day * 1440 + t > timestamp}, close \in Prices :
       \E hl \in Shapes(tod, close),
          htf_now \in (IF htf_seen THEN {TRUE} ELSE BOOLEAN) :
          LET ts == day * 1440 + tod
              oh == opening_range_high(orb_high, ts, hl[1])
              ol == opening_range_low(orb_low, ts, hl[2])
              n == IF ltf_len < MinLtfBars THEN ltf_len + 1 ELSE ltf_len
          IN  /\ timestamp' = ts
              /\ last_close' = close
              /\ orb_high' = oh
              /\ orb_low' = ol
              /\ ltf_len' = n
              /\ htf_seen' = htf_now
              /\ \E ind \in IndicatorsRead(
                          /\ ~broke
                          /\ htf_now
                          /\ SearchesEntry(ExitPhase(Locals, day, ts, close), n),
                          tod) :
                 \E L \in {IF broke THEN Locals
                            ELSE LoopBody(Locals, day, ts, close, ~htf_now,
                                          LtfPrefix(ts, close, oh, ol, ind, n),
                                          HtfWindow)} :
                    /\ current_trade' = L.current_trade
                    /\ break_even_moved' = L.break_even_moved
                    /\ signal' = L.signal
                    /\ trades' = L.trades
                    /\ daily_pnl' = L.daily_pnl
                    /\ daily_trades' = L.daily_trades
                    /\ broke' = L.broke
    /\ UNCHANGED <<config, pc, day, printed_errors, args, ret, mainVars>>

\* simulate_day lines 56-60 raise on the next candle of the day (the
\* conversion or the comparison of its timestamp), and lines 172-173 print the
\* day.  The candle is in the LTF series all the same.
DayError ==
    /\ pc = "loop"
    /\ ~broke
    /\ iterated < MaxCandles
    /\ iterated' = iterated + 1
    /\ \E tod \in {t \in Times : day * 1440 + t > timestamp}, close \in Prices :
       \E hl \in Shapes(tod, close) :
          LET ts == day * 1440 + tod
          IN  /\ timestamp' = ts
              /\ last_close' = close
              /\ orb_high' = opening_range_high(orb_high, ts, hl[1])
              /\ orb_low' = opening_range_low(orb_low, ts, hl[2])
    /\ ltf_len' = IF ltf_len < MinLtfBars THEN ltf_len + 1 ELSE ltf_len
    /\ \E L \in {Abandon(Locals)} :
           /\ current_trade' = L.current_trade
           /\ break_even_moved' = L.break_even_moved
           /\ broke' = L.broke
    /\ printed_errors' = printed_errors \cup {day}
    /\ UNCHANGED <<config, pc, day, signal, daily_pnl, daily_trades, trades,
                   htf_seen, args, ret, mainVars>>

\* simulate_day lines 145-170, then its return
EndDay ==
    /\ pc = "loop"
    /\ timestamp # 0
    /\ \E L \in {CloseRemaining(Locals, day, timestamp, last_close)} :
           /\ trades' = L.trades
           /\ daily_pnl' = L.daily_pnl
           /\ daily_trades' = L.daily_trades
    /\ current_trade' = None
    /\ break_even_moved' = FALSE
    /\ signal' = None
    /\ broke' = FALSE
    /\ timestamp' = 0
    /\ last_close' = 0
    /\ pc' = "start"
    /\ UNCHANGED <<config, day, ltf_len, htf_seen, orb_high, orb_low, iterated,
                   printed_errors, args, ret, mainVars>>

\* run_backtest lines 35-42: the days are exhausted, the ledger is returned
Finish ==
    /\ pc = "start"
    /\ day >= 1
    /\ pc' = "done"
    /\ ret' \in run_backtest(trades)
    /\ UNCHANGED <<config, day, timestamp, last_close, broke, current_trade,
                   break_even_moved, signal, daily_pnl, daily_trades, trades,
                   ltf_len, htf_seen, orb_high, orb_low, iterated, printed_errors,
                   args, mainVars>>

Next == StartDay \/ Candle \/ DayError \/ EndDay \/ Finish

Spec == Init /\ [][Next]_vars

\* ------------------------------------------------------------------ single calls
\* One call of a TradingStrategy method on a strategy in a given daily state.

\* the configurations of the simulated run, and those no constructor check
\* rejects (strategy.py 20-45): ORB-only mode, a zero and a negative risk amount
CallConfigs ==
    Configs \cup {[DefaultConfig EXCEPT !.fallback_mode = "ORB"],
                  [DefaultConfig EXCEPT !.risk_usdt = 0],
                  [DefaultConfig EXCEPT !.risk_usdt = -20]}

\* HTF prefixes: long, short and neutral bias, fewer than 200 bars, and a frame
\* without a close column
HtfWindows ==
    {[has_close |-> TRUE, len200 |-> TRUE, close |-> c, ema_50 |-> e] :
         c \in {"above", "below"}, e \in {"above", "below"}}
    \cup {HtfWindow, [HtfWindow EXCEPT !.has_close = FALSE]}

\* The end of an LTF prefix of MinLtfBars bars on day 1: its last bar, and the
\* opening range of the bars before it (none of them in the mask, or a range
\* of high 100 and low 100).  A last bar in the mask comes in every shape with
\* low <= high, its close inside [low, high] or outside it.
LtfEnds ==
    UNION {{[tod |-> tod, close |-> close, high |-> hl[1], low |-> hl[2],
             prev |-> prev] :
                hl \in Shapes(tod, close), prev \in {<<NaN, NaN>>, <<100, 100>>}} :
           tod \in Times, close \in Prices}

\* the prefix as the strategy reads it: the opening range is taken over the
\* earlier bars and the last one
LtfWindow(b, ind) ==
    LtfPrefix(1440 + b.tod, b.close,
              opening_range_high(b.prev[1], 1440 + b.tod, b.high),
              opening_range_low(b.prev[2], 1440 + b.tod, b.low),
              ind, MinLtfBars)

\* indicator values at the last bar: besides AtrAdx, a positive ATR with an
\* undefined ADX (no directional movement in the window: dx is 0/0,
\* indicators.py 62)
LtfReadings ==
    {Reading(aa, v, e, g) :
         aa \in AtrAdx \cup {<<1, NaN>>}, v \in BOOLEAN,
         e \in {"near", "above", "nan"},
         g \in {"none", "bullish", "bearish"}}

\* open trades around entry 100 with the stop at its initial level or at entry
ExitTrades ==
    {OpenTrade(1440 + 660,
               [side |-> "long", strategy |-> "orb", entry_price |-> 100,
                stop_loss |-> sl, take_profit |-> 102], <<20, 1>>) : sl \in {99, 100}}
    \cup
    {OpenTrade(1440 + 660,
               [side |-> "short", strategy |-> "orb", entry_price |-> 100,
                stop_loss |-> sl, take_profit |-> 98], <<20, 1>>) : sl \in {100, 101}}

\* simulate_day as a function of the LTF series before the day and of the
\* day's candles.  Of the earlier candles the strategy reads the opening range
\* (the mask of opening_range_high selects by time of day, on every date of
\* the prefix) and the indicator history; the indicator values at each bar of
\* the day are part of the candle.
RECURSIVE DayLoop(_, _, _, _, _, _)
DayLoop(L, oh, ol, date, day_data, i) ==
    IF i > Len(day_data) THEN L
    ELSE LET c == day_data[i]
             ts == date * 1440 + c.tod
             oh1 == opening_range_high(oh, ts, c.high)
             ol1 == opening_range_low(ol, ts, c.low)
         IN  DayLoop(IF L.broke THEN L
                     ELSE LoopBody(L, date, ts, c.close, FALSE,
                                   LtfPrefix(ts, c.close, oh1, ol1, c.ind, MinLtfBars),
                                   HtfWindow),
                     oh1, ol1, date, day_data, i + 1)

\* lines 44-170: the records the day appends to an empty ledger
simulate_day(earlier, date, day_data) ==
    LET L0 == [current_trade |-> None, break_even_moved |-> FALSE,
               signal |-> None, trades |-> <<>>, daily_pnl |-> RInt(0),
               daily_trades |-> 0, broke |-> FALSE]
        last == day_data[Len(day_data)]
    IN  CloseRemaining(DayLoop(L0, earlier[1], earlier[2], date, day_data, 1),
                       date, date * 1440 + last.tod, last.close).trades

\* opening ranges <<high, low>> of the bars of an earlier day
EarlierRanges == {<<100, 100>>, <<101, 99>>}

\* a bar of the opening range, in every shape
DayBars(tod) ==
    {[tod |-> tod, close |-> close, high |-> hl[1], low |-> hl[2], ind |-> ind] :
         close \in Prices, hl \in {x \in Prices \X Prices : x[2] <= x[1]},
         ind \in {Reading(<<1, 25>>, TRUE, "near", "none"),
                  Reading(<<1, 15>>, TRUE, "near", "none")}}

\* closes from the target of a short trade entered at 99 to the target of a
\* long trade entered at 101
LaterCloses == 97..103

\* a bar after the opening range: its high and low are not read
LaterBars(tod) ==
    {[tod |-> tod, close |-> close, high |-> close, low |-> close,
      ind |-> Reading(<<1, 25>>, TRUE, "near", "none")] : close \in LaterCloses}

\* one bar at 11:00; bars at 11:00 and 11:30; or a bar at 11:00 followed by
\* bars at 12:05 and 13:00 that close anywhere between the two targets
DayDatas ==
    {<<a>> : a \in DayBars(660)}
    \cup {<<a, b>> : a \in DayBars(660),
                     b \in {x \in DayBars(690) : x.ind.adx = 25 /\ x.high = x.low}}
    \cup {<<a, b, c>> : a \in DayBars(660), b \in LaterBars(725), c \in LaterBars(780)}

\* two runs over the same day 2 that differ in the candles of day 1
DayCalls ==
    [fn : {"simulate_day"}, earlier_a : EarlierRanges, earlier_b : EarlierRanges,
     day_data : DayDatas]

\* ledger rows as the metrics read them (pnl_usdt, day_key, strategy_used,
\* used_fallback, exit_reason): a stopped-out loss, a stop at entry after the
\* break-even move, at no gain, and a take-profit win
LedgerRows ==
    {[day_key |-> d, pnl_usdt |-> RInt(x[1]), exit_reason |-> x[2],
      strategy_used |-> "orb", used_fallback |-> FALSE] :
         d \in 1..MaxDays,
         x \in {<<0 - 20, "stop_loss">>, <<0, "stop_loss">>, <<40, "take_profit">>}}

\* ledgers of up to MaxLedger rows, in the order of the days, with at most
\* MaxCap rows of a day
Ledgers ==
    UNION {{t \in [1..n -> LedgerRows] :
               /\ \A i \in 1..(n - 1) : t[i].day_key <= t[i + 1].day_key
               /\ \A d \in 1..MaxDays :
                      Cardinality({i \in 1..n : t[i].day_key = d}) <= MaxCap} :
           n \in 0..MaxLedger}

\* ------------------------------------------------------------------ btc_1tpd_backtest_final.py
\* SimpleTradingStrategy.simulate_trade_exit.  day_data: the bars of the day
\* (ts, high, low, close) in index order.

\* the local exit_time is read at line 173 without having been assigned
UnboundLocalError == [raised |-> "UnboundLocalError"]

\* lines 163-170
TradeRMultiple(entry_price, stop_loss, exit_price, side) ==
    LET risk == Abs(entry_price - stop_loss)
    IN  IF risk > 0
        THEN IF (side = "long" /\ exit_price < entry_price)
                \/ (side = "short" /\ exit_price > entry_price)
             THEN Rat(0 - Abs(exit_price - entry_price), risk)
             ELSE Rat(Abs(exit_price - entry_price), risk)
        ELSE RInt(0)

\* lines 157-178: PnL, R-multiple and the dict returned
ExitInfo(trade_params, side, exit_time, exit_price, exit_reason) ==
    [exit_time   |-> exit_time,
     exit_price  |-> exit_price,
     exit_reason |-> exit_reason,
     pnl_usdt    |-> IF side = "long"
                     THEN RMulInt(exit_price - trade_params.entry_price,
                                  trade_params.position_size)
                     ELSE RMulInt(trade_params.entry_price - exit_price,
                                  trade_params.position_size),
     r_multiple  |-> TradeRMultiple(trade_params.entry_price, trade_params.stop_loss,
                                    exit_price, side)]

\* line 116: day_data[day_data.index > entry_time]
RemainingData(day_data, entry_time) ==
    SelectSeq(day_data, LAMBDA bar : bar.ts > entry_time)

\* lines 125-126, 141-142: the rows of the two boolean masks
TpHits(remaining_data, take_profit, side) ==
    {i \in DOMAIN remaining_data :
        IF side = "long" THEN remaining_data[i].high >= take_profit
        ELSE remaining_data[i].low <= take_profit}

SlHits(remaining_data, stop_loss, side) ==
    {i \in DOMAIN remaining_data :
        IF side = "long" THEN remaining_data[i].low <= stop_loss
        ELSE remaining_data[i].high >= stop_loss}

\* remaining_data[mask].index[0]
FirstOf(hits) == CHOOSE i \in hits : \A j \in hits : i <= j

\* variant: the bar that is hit first decides, the stop when one bar hits both
simulate_trade_exit_chronological(trade_params, side, day_data) ==
    LET remaining_data == RemainingData(day_data, trade_params.entry_time)
        tp_hit == TpHits(remaining_data, trade_params.take_profit, side)
        sl_hit == SlHits(remaining_data, trade_params.stop_loss, side)
        last == remaining_data[Len(remaining_data)]
    IN  IF remaining_data = <<>> THEN UnboundLocalError
        ELSE IF sl_hit # {} /\ (tp_hit = {} \/ FirstOf(sl_hit) <= FirstOf(tp_hit))
        THEN ExitInfo(trade_params, side, remaining_data[FirstOf(sl_hit)].ts,
                      trade_params.stop_loss, "stop_loss")
        ELSE IF tp_hit # {}
        THEN ExitInfo(trade_params, side, remaining_data[FirstOf(tp_hit)].ts,
                      trade_params.take_profit, "take_profit")
        ELSE ExitInfo(trade_params, side, last.ts, last.close, "session_end")

\* lines 107-178.  With no bar after the entry, exit_price and exit_reason are
\* set (lines 120-121) but exit_time is not, and building the result raises.
simulate_trade_exit(trade_params, side, day_data) ==
    LET remaining_data == RemainingData(day_data, trade_params.entry_time)
        tp_hit == TpHits(remaining_data, trade_params.take_profit, side)
        sl_hit == SlHits(remaining_data, trade_params.stop_loss, side)
        last == remaining_data[Len(remaining_data)]
    IN  IF remaining_data = <<>> THEN UnboundLocalError
        ELSE IF tp_hit # {}
        THEN ExitInfo(trade_params, side, remaining_data[FirstOf(tp_hit)].ts,
                      trade_params.take_profit, "take_profit")
        ELSE IF sl_hit # {}
        THEN ExitInfo(trade_params, side, remaining_data[FirstOf(sl_hit)].ts,
                      trade_params.stop_loss, "stop_loss")
        ELSE ExitInfo(trade_params, side, last.ts, last.close, "session_end")

\* bars after the entry bar of a trade
MaxRemaining == 2

\* the trade process_day hands over: entered at 100 on the 11:00 bar with a
\* risk of 1 and a target 2 away
SimpleTradeParams(side) ==
    [entry_price |-> 100, entry_time |-> 1440 + 660,
     stop_loss |-> IF side = "long" THEN 99 ELSE 101,
     take_profit |-> IF side = "long" THEN 102 ELSE 98,
     position_size |-> RInt(20)]

\* a bar closing at 100 whose range reaches neither level, one of them or both
RangeBars(ts) ==
    {[ts |-> ts, high |-> h, low |-> l, close |-> 100] : h \in 100..102, l \in 98..100}

\* the bars of the day from the entry bar on, half an hour apart
RECURSIVE BarsFrom(_, _)
BarsFrom(ts, n) ==
    IF n = 0 THEN {<<>>}
    ELSE {<<b>> \o rest : b \in RangeBars(ts), rest \in BarsFrom(ts + 30, n - 1)}

ExitSimCalls ==
    {[fn |-> "simulate_trade_exit", side |-> side,
      trade_params |-> SimpleTradeParams(side), day_data |-> d] :
         side \in {"long", "short"},
         d \in UNION {BarsFrom(1440 + 660, n) : n \in 1..(MaxRemaining + 1)}}

GateCalls == [fn : {"can_trade_today"}]

MetricsCalls ==
    [fn : {"display_summary", "calculate_max_consecutive_losses"}, trades : Ledgers]

\* the dict main builds for the configuration c (lines 88-100)
strategy_config(c) ==
    [k \in ConfigKeys |-> IF k = "signal_tf" THEN 15 ELSE c[k]]

\* config dicts given to the constructor: those of CallConfigs, a floor of 0,
\* a fallback mode outside the three names, and the default with one key missing
ConfigDicts ==
    {strategy_config(c) : c \in CallConfigs}
    \cup {strategy_config([DefaultConfig EXCEPT !.daily_max_loss = 0]),
          strategy_config([DefaultConfig EXCEPT !.fallback_mode = "VWAP"])}
    \cup {[k \in ConfigKeys \ {m} |-> strategy_config(DefaultConfig)[k]] :
              m \in ConfigKeys}

ConstructorCalls == [fn : {"TradingStrategy"}, config : ConfigDicts]

SignalCalls ==
    {[fn |-> "get_trade_signal", ltf |-> LtfWindow(b, ind), htf |-> htf,
      high |-> b.high, low |-> b.low] :
         b \in LtfEnds, ind \in LtfReadings, htf \in HtfWindows}

ExitCalls ==
    [fn : {"should_exit_trade"}, trade : ExitTrades,
     current_price : (98..102) \cup {Bad},
     current_time : {1440 + tod : tod \in Times}, is_break_even : BOOLEAN]

SizeCalls ==
    [fn : {"calculate_position_size"}, entry_price : Prices, stop_loss : 98..102]

\* daily state of the strategy at a get_trade_signal or can_trade_today
\* call: no PnL yet with any
\* number of trades, or one trade that reached the target or the floor
InitCalls ==
    /\ config \in CallConfigs
    /\ pc = "call"
    /\ args \in SignalCalls \cup ExitCalls \cup SizeCalls \cup ConstructorCalls
                \cup DayCalls \cup MetricsCalls \cup GateCalls \cup ExitSimCalls
    /\ args.fn \in {"TradingStrategy", "simulate_day", "display_summary",
                    "calculate_max_consecutive_losses", "simulate_trade_exit"}
       => config = DefaultConfig
    /\ ret = None
    /\ \E ds \in {<<RInt(0), n>> : n \in 0..MaxCap}
                  \cup {<<RInt(config.daily_target), 1>>,
                        <<RInt(config.daily_max_loss), 1>>} :
           /\ daily_pnl = ds[1]
           /\ daily_trades = ds[2]
           /\ args.fn \notin {"get_trade_signal", "can_trade_today"}
                  => ds = <<RInt(0), 0>>
    /\ day = 1
    /\ timestamp = 0
    /\ last_close = 0
    /\ broke = FALSE
    /\ current_trade = None
    /\ break_even_moved = FALSE
    /\ signal = None
    /\ trades = IF "trades" \in DOMAIN args THEN args.trades ELSE <<>>
    /\ ltf_len = MinLtfBars
    /\ htf_seen = TRUE
    /\ orb_high = NaN
    /\ orb_low = NaN
    /\ iterated = 0
    /\ printed_errors = {}
    /\ fetched = None
    /\ exit_status = None
    /\ trades_csv = None
    /\ printed_summaries = <<>>

Returns(value) ==
    /\ pc = "call"
    /\ pc' = "returned"
    /\ ret' = value
    /\ UNCHANGED <<config, day, timestamp, last_close, broke, current_trade,
                   break_even_moved, signal, daily_pnl, daily_trades, trades,
                   ltf_len, htf_seen, orb_high, orb_low, iterated, printed_errors,
                   args, mainVars>>

Call_get_trade_signal ==
    /\ args.fn = "get_trade_signal"
    /\ Returns(get_trade_signal(args.ltf, args.htf, daily_pnl, daily_trades))

Call_should_exit_trade ==
    /\ args.fn = "should_exit_trade"
    /\ Returns(should_exit_trade(args.trade, args.current_price, args.current_time,
                                 args.is_break_even))

Call_calculate_position_size ==
    /\ args.fn = "calculate_position_size"
    /\ Returns(calculate_position_size(args.entry_price, args.stop_loss))

Call_TradingStrategy ==
    /\ args.fn = "TradingStrategy"
    /\ Returns(TradingStrategy(args.config))

\* the same day simulated after each of the two earlier series
Call_simulate_day ==
    /\ args.fn = "simulate_day"
    /\ Returns([a |-> simulate_day(args.earlier_a, 2, args.day_data),
                b |-> simulate_day(args.earlier_b, 2, args.day_data)])

\* variant: the summary takes the first row out of the ledger
Call_display_summary_consumes ==
    /\ args.fn = "display_summary"
    /\ pc \in {"call", "returned"}
    /\ Len(printed_summaries) < 2
    /\ pc' = "returned"
    /\ printed_summaries' = Append(printed_summaries, display_summary(trades))
    /\ trades' = IF trades = <<>> THEN trades ELSE Tail(trades)
    /\ UNCHANGED <<config, day, timestamp, last_close, broke, current_trade,
                   break_even_moved, signal, daily_pnl, daily_trades,
                   ltf_len, htf_seen, orb_high, orb_low, iterated, printed_errors,
                   args, ret, fetched, exit_status, trades_csv>>

\* backtester.py 195-264, called once and then once more: the statistics are
\* computed from self.trades and printed; nothing is returned or stored
Call_display_summary ==
    /\ args.fn = "display_summary"
    /\ pc \in {"call", "returned"}
    /\ Len(printed_summaries) < 2
    /\ pc' = "returned"
    /\ printed_summaries' = Append(printed_summaries, display_summary(trades))
    /\ UNCHANGED <<runVars, fetched, exit_status, trades_csv>>

Call_can_trade_today ==
    /\ args.fn = "can_trade_today"
    /\ Returns(can_trade_today(daily_pnl, daily_trades))

Call_calculate_max_consecutive_losses ==
    /\ args.fn = "calculate_max_consecutive_losses"
    /\ Returns(calculate_max_consecutive_losses(trades))

\* SimpleTradingStrategy.simulate_trade_exit of btc_1tpd_backtest_final.py
Call_simulate_trade_exit ==
    /\ args.fn = "simulate_trade_exit"
    /\ Returns(simulate_trade_exit(args.trade_params, args.side, args.day_data))

NextCalls ==
    \/ Call_get_trade_signal \/ Call_should_exit_trade
    \/ Call_calculate_position_size \/ Call_TradingStrategy
    \/ Call_simulate_day \/ Call_display_summary
    \/ Call_calculate_max_consecutive_losses \/ Call_can_trade_today
    \/ Call_simulate_trade_exit

SpecCalls == InitCalls /\ [][NextCalls]_vars

\* ------------------------------------------------------------------ the command
\* btc_1tpd_backtest_binance.py main(): fetch, run_backtest, trades.csv, summary.

\* what parse_arguments can put into strategy_config (any float is accepted);
\* the cap is the 1 of strategy.py line 45
MainConfigs == {c \in CallConfigs : c.max_daily_trades = 1}

\* lines 77-78: the two series have been fetched
InitMain ==
    /\ config \in MainConfigs
    /\ pc = "main"
    /\ fetched \in [htf_empty : BOOLEAN, ltf_empty : BOOLEAN]
    /\ \E h \in Histories :
           /\ ltf_len = IF fetched.ltf_empty THEN 0 ELSE h[1]
           /\ htf_seen = IF fetched.htf_empty THEN FALSE ELSE h[2]
    /\ day = 0
    /\ timestamp = 0
    /\ last_close = 0
    /\ broke = FALSE
    /\ current_trade = None
    /\ break_even_moved = FALSE
    /\ signal = None
    /\ daily_pnl = RInt(0)
    /\ daily_trades = 0
    /\ trades = <<>>
    /\ orb_high = NaN
    /\ orb_low = NaN
    /\ iterated = 0
    /\ printed_errors = {}
    /\ args = None
    /\ ret = None
    /\ exit_status = None
    /\ trades_csv = None
    /\ printed_summaries = <<>>

\* lines 80-82: a series is empty; main prints and returns, and the interpreter
\* ends with status 0
MainNoData ==
    /\ pc = "main"
    /\ fetched.htf_empty \/ fetched.ltf_empty
    /\ pc' = "exited"
    /\ exit_status' = 0
    /\ UNCHANGED <<runVars, fetched, trades_csv, printed_summaries>>

\* lines 84-109: the strategy and the backtester are built, run_backtest starts
MainRun ==
    /\ pc = "main"
    /\ ~(fetched.htf_empty \/ fetched.ltf_empty)
    /\ pc' = "start"
    /\ UNCHANGED <<runVars, mainVars>>

\* lines 112-114: the frame returned by run_backtest is written to trades.csv
MainSave ==
    /\ pc = "done"
    /\ ret # ZeroDivisionError
    /\ pc' = "saved"
    /\ trades_csv' = ret
    /\ UNCHANGED <<runVars, fetched, exit_status, printed_summaries>>

\* line 109 or line 113 raises (run_backtest has raised, or the file cannot
\* be written); lines 119-121: sys.exit(1)
MainSaveFails ==
    /\ pc = "done"
    /\ pc' = "exited"
    /\ exit_status' = 1
    /\ UNCHANGED <<runVars, fetched, trades_csv, printed_summaries>>

\* line 117, then main returns
MainSummary ==
    /\ pc = "saved"
    /\ pc' = "exited"
    /\ printed_summaries' = Append(printed_summaries, display_summary(trades))
    /\ exit_status' = 0
    /\ UNCHANGED <<runVars, fetched, trades_csv>>

NextMain ==
    \/ MainNoData \/ MainRun
    \/ StartDay \/ Candle \/ DayError \/ EndDay \/ Finish
    \/ MainSave \/ MainSaveFails \/ MainSummary

SpecMain == InitMain /\ [][NextMain]_vars

\* ------------------------------------------------------------------ properties
Ledger == DOMAIN trades

RecordsOfDay(d) == {i \in Ledger : trades[i].day_key = d}

LastRecord == trades[Len(trades)]

Open == current_trade # None

\* the open trade is the same trade before and after the step
SameTrade == Open /\ Open' /\ current_trade'.entry_time = current_trade.entry_time

\* the step appends one record to the ledger
Appended == Len(trades') = Len(trades) + 1

LimitReached == is_daily_target_reached(daily_pnl) \/ is_daily_loss_limit_reached(daily_pnl)

\* +1R level of a trade whose stop is still the initial one
PlusOneR(t) ==
    IF t.side = "long" THEN t.entry_price + (t.entry_price - t.stop_loss)
    ELSE t.entry_price - (t.stop_loss - t.entry_price)

ReachedPlusOneR(t, close) ==
    IF t.side = "long" THEN close >= PlusOneR(t) ELSE close <= PlusOneR(t)

\* C1: no two TradeRecords of one day have overlapping [entry_time, exit_time)
\* intervals, and the trade in the open slot was entered no earlier than the
\* exit of every record of its day.
C1_NoOverlap ==
    /\ \A i, j \in Ledger :
          (i < j /\ trades[i].day_key = trades[j].day_key)
          => ~(trades[i].entry_time < trades[j].exit_time
               /\ trades[j].entry_time < trades[i].exit_time)
    /\ Open => \A i \in RecordsOfDay(day) :
                  trades[i].exit_time <= current_trade.entry_time

\* two trades of one day, each held over at least one candle
C1_Witness ==
    \E i, j \in Ledger :
        /\ i < j
        /\ trades[i].day_key = trades[j].day_key
        /\ trades[i].entry_time < trades[i].exit_time
        /\ trades[j].entry_time < trades[j].exit_time

\* C2: the number of TradeRecords carrying a day's day_key never exceeds
\* max_daily_trades (so it is at most one under the default cap of 1), and
\* while a trade is open the day's records are fewer than the cap.
C2_DailyCap ==
    /\ \A d \in 1..MaxDays :
          Cardinality(RecordsOfDay(d)) <= config.max_daily_trades
    /\ Open => Cardinality(RecordsOfDay(day)) < config.max_daily_trades

\* cap 1, the day's trade was entered at an earlier candle and is recorded, and
\* the candle now iterated is again an ORB-window bar closing above the range
C2_Witness ==
    /\ config.max_daily_trades = 1
    /\ pc = "loop"
    /\ Cardinality(RecordsOfDay(day)) = 1
    /\ LastRecord.day_key = day
    /\ LastRecord.entry_time < timestamp
    /\ is_orb_window(timestamp)
    /\ opening_range_breakout(last_close, orb_high, orb_low, "long")

\* C3: once the daily PnL is at or beyond the target or the floor,
\* can_trade_today() is false, and both stay so at every later step of the day
\* (every step that is not the start of the next day).
C3_LimitsLatch ==
    /\ [](LimitReached => ~can_trade_today(daily_pnl, daily_trades))
    /\ [][(LimitReached /\ day' = day)
           => (LimitReached' /\ ~can_trade_today(daily_pnl', daily_trades'))]_vars

\* a limit was reached below the cap and a later candle of the day is iterated
C3_Witness ==
    /\ pc = "loop"
    /\ LimitReached
    /\ daily_trades < config.max_daily_trades
    /\ Len(trades) > 0
    /\ LastRecord.day_key = day
    /\ LastRecord.exit_time < timestamp

\* C4: every TradeRecord has exit_time >= entry_time.
C4_ExitNotBeforeEntry ==
    \A i \in Ledger : trades[i].exit_time >= trades[i].entry_time

\* one trade closed by the end-of-day close on its entry candle, another one
\* closed on a later candle
C4_Witness ==
    /\ \E i \in Ledger : /\ trades[i].exit_time = trades[i].entry_time
                         /\ trades[i].exit_reason = "session_end"
    /\ \E i \in Ledger : trades[i].exit_time > trades[i].entry_time

\* C5: the stop-loss of an open trade is its initial value (the accepted
\* signal's) while the break-even flag is clear and the entry price once it is
\* set; the flag is set only by a step whose candle close has reached the +1R
\* level of the initial stop, and it is not cleared while the trade is open.
C5_BreakEvenOnce ==
    /\ [](Open => current_trade.stop_loss =
                      (IF break_even_moved THEN current_trade.entry_price
                       ELSE signal.stop_loss))
    /\ [][/\ (Open' /\ break_even_moved' /\ ~(SameTrade /\ break_even_moved))
             => ReachedPlusOneR(signal', last_close')
          /\ (SameTrade /\ break_even_moved) => break_even_moved']_vars

\* a trade whose stop has been moved to entry is still open
C5_Witness ==
    /\ Open
    /\ break_even_moved
    /\ current_trade.stop_loss # signal.stop_loss

\* C6: while a trade is open no step changes its take_profit, entry_price,
\* side, position_size or strategy; they are those of the accepted signal, and
\* the record appended for the trade carries them.
C6_FrameOfOpenTrade ==
    /\ [](Open => /\ signal # None
                  /\ current_trade.take_profit = signal.take_profit
                  /\ current_trade.entry_price = signal.entry_price
                  /\ current_trade.side = signal.side
                  /\ current_trade.strategy = signal.strategy)
    /\ [][/\ SameTrade
             => /\ current_trade'.take_profit = current_trade.take_profit
                /\ current_trade'.entry_price = current_trade.entry_price
                /\ current_trade'.side = current_trade.side
                /\ current_trade'.position_size = current_trade.position_size
                /\ current_trade'.strategy = current_trade.strategy
          /\ (Open /\ Appended)
             => /\ trades'[Len(trades')].tp = signal.take_profit
                /\ trades'[Len(trades')].entry_price = current_trade.entry_price
                /\ trades'[Len(trades')].side = current_trade.side
                /\ trades'[Len(trades')].position_size = current_trade.position_size
                /\ trades'[Len(trades')].strategy_used = current_trade.strategy]_vars

\* a recorded trade whose stop had been moved to entry before it was closed
C6_Witness ==
    \E i \in Ledger : /\ trades[i].sl = trades[i].entry_price
                      /\ trades[i].tp # trades[i].entry_price
                      /\ trades[i].exit_time > trades[i].entry_time

\* C7: the break-even trigger price stored in the open trade is the +1R level
\* of the accepted signal.
C7_TriggerIsPlusOneR ==
    Open => current_trade.break_even_price = PlusOneR(signal)

\* C8 as stated: every TradeRecord's exit_reason is take_profit, stop_loss or
\* session_end.
C8_ThreeReasons ==
    \A i \in Ledger :
        trades[i].exit_reason \in {"take_profit", "stop_loss", "session_end"}

\* C8 amended: every TradeRecord's exit_reason is take_profit, stop_loss,
\* break_even or session_end.
C8_FourReasons ==
    \A i \in Ledger :
        trades[i].exit_reason \in {"take_profit", "stop_loss", "break_even", "session_end"}

\* the ledger holds a record closed by the break-even exit of should_exit_trade
C8_Witness ==
    \E i \in Ledger : /\ trades[i].exit_reason = "break_even"
                      /\ trades[i].sl = trades[i].entry_price

\* C9: a step without an exception that empties or refills the open slot
\* appends exactly one record, the record of the trade that was open; no two
\* records are of the same trade; outside the candle loop (simulate_day has
\* returned) no trade is open.
C9_EveryTradeRecorded ==
    /\ [](pc # "loop" => ~Open)
    /\ [](\A i, j \in Ledger :
             trades[i].entry_time = trades[j].entry_time => i = j)
    /\ [][(Open /\ ~SameTrade /\ printed_errors' = printed_errors)
           => /\ Appended
              /\ SubSeq(trades', 1, Len(trades)) = trades
              /\ trades'[Len(trades')].entry_time = current_trade.entry_time
              /\ trades'[Len(trades')].day_key = day]_vars

\* the day has returned after two trades: the first closed by an exit
\* decision, the second by the end-of-day close
C9_Witness ==
    /\ pc = "start"
    /\ Cardinality(RecordsOfDay(day)) = 2
    /\ LastRecord.day_key = day
    /\ LastRecord.exit_reason = "session_end"
    /\ HourOf(LastRecord.exit_time) < session_end
    /\ daily_trades = 2

\* C10: when the candles of the day are exhausted with a trade open, the step
\* appends a record with exit_reason session_end, exit_price the last candle's
\* close and exit_time its timestamp, adds its PnL to daily_pnl and counts it
\* in daily_trades.
C10_SessionEndClose ==
    [][(pc = "loop" /\ pc' = "start" /\ Open)
        => /\ Appended
           /\ trades'[Len(trades')].exit_reason = "session_end"
           /\ trades'[Len(trades')].exit_price = last_close
           /\ trades'[Len(trades')].exit_time = timestamp
           /\ trades'[Len(trades')].pnl_usdt =
                  calculate_trade_pnl(current_trade, last_close, "session_end")
           /\ daily_pnl' = RAdd(daily_pnl, trades'[Len(trades')].pnl_usdt)
           /\ daily_trades' = daily_trades + 1]_vars

\* a day has returned after closing a trade with a non-zero PnL on a candle
\* before the session-end hour
C10_Witness ==
    /\ pc = "start"
    /\ Len(trades) > 0
    /\ LastRecord.day_key = day
    /\ LastRecord.exit_reason = "session_end"
    /\ HourOf(LastRecord.exit_time) < session_end
    /\ LastRecord.exit_time > LastRecord.entry_time
    /\ LastRecord.pnl_usdt # RInt(0)
    /\ daily_pnl = LastRecord.pnl_usdt

\* C11: every TradeRecord has pnl_usdt = (exit_price - entry_price) *
\* position_size when its side is long and (entry_price - exit_price) *
\* position_size when it is short, whatever its exit_reason; a long trade
\* entered at 100 with size 2 and closed at 110 has a PnL of 20.
C11_PnlBySide ==
    /\ \A i \in Ledger :
          trades[i].pnl_usdt =
              (IF trades[i].side = "long"
               THEN RMulInt(trades[i].exit_price - trades[i].entry_price,
                            trades[i].position_size)
               ELSE RMulInt(trades[i].entry_price - trades[i].exit_price,
                            trades[i].position_size))
    /\ \A reason \in {"take_profit", "stop_loss", "break_even", "session_end"} :
          calculate_trade_pnl([side |-> "long", entry_price |-> 100,
                               position_size |-> RInt(2)], 110, reason) = RInt(20)

\* the ledger holds a losing short trade and a record closed by an exit
\* decision of should_exit_trade
C11_Witness ==
    /\ \E i \in Ledger : /\ trades[i].side = "short"
                          /\ RLess(trades[i].pnl_usdt, RInt(0))
                          /\ trades[i].exit_price > trades[i].entry_price
    /\ \E i \in Ledger : trades[i].exit_reason # "session_end"

\* the LTF prefixes get_trade_signal can be handed in the current state at a
\* candle of time tod
LtfWindowsAt(tod) ==
    {LtfPrefix(day * 1440 + tod, close, orb_high, orb_low, ind, MinLtfBars) :
         close \in Prices, ind \in Indicators(tod)}

\* C12: get_trade_signal returns no intent whenever can_trade_today() is false
\* or the hour of the call is outside [11, 13); the trade in the open slot and
\* every TradeRecord were entered at hour 11 or 12, the slot being filled only
\* while can_trade_today() holds.
C12_EntryWindowGate ==
    /\ \A tod \in Times :
          (~can_trade_today(daily_pnl, daily_trades) \/ HourOf(tod) \notin 11..12)
          => \A ltf \in LtfWindowsAt(tod) :
                 get_trade_signal(ltf, HtfWindow, daily_pnl, daily_trades) = None
    /\ \A i \in Ledger : HourOf(trades[i].entry_time) \in 11..12
    /\ Open => HourOf(current_trade.entry_time) \in 11..12
    /\ (Open /\ current_trade.entry_time = timestamp)
       => can_trade_today(daily_pnl, daily_trades)

\* a trade of the day is recorded, trading is still allowed, and the entry
\* search has run on a 13:00 candle without opening a trade
C12_Witness ==
    /\ pc = "loop"
    /\ ~broke
    /\ HourOf(timestamp) = fallback_hour
    /\ can_trade_today(daily_pnl, daily_trades)
    /\ ltf_len = MinLtfBars
    /\ htf_seen
    /\ RecordsOfDay(day) # {}
    /\ signal = None
    /\ ~Open

\* the candle loop is iterating, the slot is empty and trading is allowed, with
\* a configuration that sizes every non-degenerate stop positively
ReadyToEnter ==
    /\ pc = "loop"
    /\ ~broke
    /\ ~Open
    /\ can_trade_today(daily_pnl, daily_trades)
    /\ config.risk_usdt > 0
    /\ config.atr_mult_orb > 0

\* C13: a candle after the ORB window has closed (12:05) that closes above the
\* opening-range high, with ADX >= adx_min and volume above its average (the
\* readings of every 12:05 candle here), iterated with the slot empty, opens a
\* long trade tagged orb at the close of that candle.
C13_BreakoutAfterWindow ==
    [][(/\ ReadyToEnter
        /\ printed_errors' = printed_errors
        /\ timestamp' # timestamp
        /\ HourOf(timestamp') = orb_end
        /\ ~InOpeningRange(timestamp')
        /\ htf_seen'
        /\ ltf_len' = MinLtfBars
        /\ ~IsNaN(orb_high')
        /\ last_close' > orb_high')
       => /\ Open'
          /\ current_trade'.side = "long"
          /\ current_trade'.strategy = "orb"
          /\ current_trade'.entry_price = last_close'
          /\ current_trade'.entry_time = timestamp']_vars

\* a call of the named method has returned
Returned(fn) == pc = "returned" /\ args.fn = fn

\* C14: when no ORB signal fires, force_one_trade is set, fallback_mode is
\* EMA15_pullback or BestOfBoth, the hour is 13 or later and the pullback,
\* engulfing, volume and reward/risk conditions hold for a side,
\* get_trade_signal (called while can_trade_today() holds, on a usable HTF
\* prefix) returns an intent tagged ema15_pullback for that side.
C14_FallbackIntent ==
    (/\ Returned("get_trade_signal")
     /\ can_trade_today(daily_pnl, daily_trades)
     /\ args.htf.has_close
     /\ ~check_orb_conditions(args.ltf, "long").ok
     /\ ~check_orb_conditions(args.ltf, "short").ok
     /\ config.force_one_trade
     /\ config.fallback_mode \in {"EMA15_pullback", "BestOfBoth"}
     /\ HourOf(args.ltf.ts) >= fallback_hour)
    => \A side \in {"long", "short"} :
           check_ema15_pullback_conditions(args.ltf, side).ok
           => /\ ret # None
              /\ ret.strategy = "ema15_pullback"
              /\ ret.side = side

\* C15: with force_one_trade = False a trade is opened only on an entry-window
\* candle that breaks the opening range on the trade's side, and every
\* TradeRecord is tagged orb: a day without such a candle has no TradeRecord,
\* whatever the EMA15-pullback readings of its candles.
C15_NoBreakoutNoTrade ==
    ~config.force_one_trade
    => /\ \A i \in Ledger : /\ trades[i].strategy_used = "orb"
                             /\ ~trades[i].used_fallback
       /\ (Open /\ current_trade.entry_time = timestamp)
          => /\ is_entry_window(timestamp)
             /\ current_trade.strategy = "orb"
             /\ opening_range_breakout(last_close, orb_high, orb_low,
                                       current_trade.side)

\* force_one_trade is off and the entry search has run on a 13:00 candle (with
\* every pullback reading) of a day that has no record and no trade
C15_Witness ==
    /\ ~config.force_one_trade
    /\ pc = "loop"
    /\ ~broke
    /\ HourOf(timestamp) = fallback_hour
    /\ ltf_len = MinLtfBars
    /\ htf_seen
    /\ can_trade_today(daily_pnl, daily_trades)
    /\ RecordsOfDay(day) = {}
    /\ day \notin printed_errors
    /\ ~Open

\* C16: the result of get_trade_signal is the same for every HTF prefix
\* get_macro_bias accepts, whatever bias it yields (long, short, neutral); the
\* long side is tried first and the short side whenever the long side fails,
\* under every bias.
C16_BiasIndependent ==
    (Returned("get_trade_signal") /\ args.htf.has_close)
    => /\ \A htf \in HtfWindows :
              htf.has_close
              => get_trade_signal(args.ltf, htf, daily_pnl, daily_trades) = ret
       /\ (can_trade_today(daily_pnl, daily_trades) /\ is_entry_window(args.ltf.ts))
          => /\ check_orb_conditions(args.ltf, "long").ok
                => (ret # None /\ ret.side = "long")
             /\ (/\ ~check_orb_conditions(args.ltf, "long").ok
                 /\ check_orb_conditions(args.ltf, "short").ok)
                => (ret # None /\ ret.side = "short")

\* a short intent was returned on an HTF prefix whose macro bias is long
C16_Witness ==
    /\ Returned("get_trade_signal")
    /\ args.htf.has_close
    /\ get_macro_bias(args.htf) = "long"
    /\ ret # None
    /\ ret.side = "short"
    /\ \E htf \in HtfWindows : htf.has_close /\ get_macro_bias(htf) = "short"
    /\ \E htf \in HtfWindows : htf.has_close /\ get_macro_bias(htf) = "neutral"

\* C17: for a non-positive risk amount or a degenerate stop (entry = stop)
\* calculate_position_size returns 0.
C17_ZeroSize ==
    (/\ Returned("calculate_position_size")
     /\ (config.risk_usdt <= 0 \/ args.entry_price = args.stop_loss))
    => ret = RInt(0)

\* C18: a step on which simulate_day's handler catches an exception leaves the
\* ledger and the daily counters as they were, empties the open slot and
\* leaves the run inside run_backtest's loop over the days; from then on no
\* record is appended for that day, so the discarded trade never reaches the
\* ledger; at every step the old ledger is a prefix of the new one.
C18_DayErrorContained ==
    /\ [][printed_errors' # printed_errors
           => /\ trades' = trades
              /\ daily_pnl' = daily_pnl
              /\ daily_trades' = daily_trades
              /\ ~Open'
              /\ pc' = "loop"]_vars
    /\ [][(day \in printed_errors) => (trades' = trades)]_vars
    /\ [][/\ Len(trades') >= Len(trades)
          /\ SubSeq(trades', 1, Len(trades)) = trades]_vars

\* the handler has caught an exception that met an open trade: a record of
\* the day was appended before it, the last entry search returned a signal of
\* positive size with the gates still open, and the slot is empty
C18_Witness ==
    /\ pc = "loop"
    /\ day \in printed_errors
    /\ RecordsOfDay(day) # {}
    /\ signal # None
    /\ config.atr_mult_orb > 0
    /\ can_trade_today(daily_pnl, daily_trades)
    /\ ~Open

\* Backtester.daily_stats: the empty dict of __init__ (line 23); no method
\* assigns to it or stores a key in it (get_daily_stats builds a local frame
\* from the ledger)
daily_stats == << >>

\* C19: every day abandoned by the exception handler is recorded in a count
\* or list of skipped days that is available after the run.  The Backtester
\* keeps two attributes of results, the ledger and daily_stats; the ledger
\* holds trade records only, so the record of days could only be daily_stats.
C19_SkippedDaysRecorded ==
    pc = "done" => \A d \in printed_errors : d \in DOMAIN daily_stats

\* an indicator value that check_orb_conditions computes on the prefix is NaN
UndefinedIndicator(ltf) ==
    IsNaN(ltf.orb_high) \/ IsNaN(ltf.orb_low) \/ IsNaN(ltf.atr) \/ IsNaN(ltf.adx)

C21_EmptyDataAborts ==
    (pc = "exited" /\ (fetched.htf_empty \/ fetched.ltf_empty))
    => /\ day = 0
       /\ trades_csv = None
       /\ exit_status # 0

\* what the configuration section asks of a config dict
ValidConfig(cfg) ==
    /\ ConfigKeys \subseteq DOMAIN cfg
    /\ cfg.risk_usdt > 0
    /\ cfg.daily_max_loss < 0
    /\ cfg.fallback_mode \in {"ORB", "EMA15_pullback", "BestOfBoth"}

\* C22: the constructor rejects a config dict with a missing parameter or an
\* invalid value; it returns an engine only for a valid one.
C22_ConstructionValidates ==
    (Returned("TradingStrategy") /\ ~ValidConfig(args.config)) => ret = KeyError

\* C23: the records of a day are the same in two runs that differ only in the
\* LTF candles of earlier days.
C23_DayIndependent ==
    Returned("simulate_day") => ret.a = ret.b

AtStop(trade, price) ==
    IF trade.side = "long" THEN price <= trade.stop_loss ELSE price >= trade.stop_loss
AtTarget(trade, price) ==
    IF trade.side = "long" THEN price >= trade.take_profit ELSE price <= trade.take_profit
AtBreakEven(trade, price) ==
    IF trade.side = "long" THEN price >= trade.break_even_price
    ELSE price <= trade.break_even_price

\* C25: should_exit_trade returns the first match of session end, stop-loss,
\* take-profit, break-even, in that order, at the current price, and no exit
\* when none matches.
C25_ExitOrder ==
    Returned("should_exit_trade") =>
        LET t == args.trade
            p == args.current_price
        IN  IF HourOf(args.current_time) >= session_end
            THEN ret = [exit |-> TRUE, reason |-> "session_end", price |-> p]
            ELSE ~IsBad(p) =>
                 /\ AtStop(t, p)
                    => ret = [exit |-> TRUE, reason |-> "stop_loss", price |-> p]
                 /\ (~AtStop(t, p) /\ AtTarget(t, p))
                    => ret = [exit |-> TRUE, reason |-> "take_profit", price |-> p]
                 /\ (~AtStop(t, p) /\ ~AtTarget(t, p)
                        /\ args.is_break_even /\ AtBreakEven(t, p))
                    => ret = [exit |-> TRUE, reason |-> "break_even", price |-> p]
                 /\ (~AtStop(t, p) /\ ~AtTarget(t, p)
                        /\ ~(args.is_break_even /\ AtBreakEven(t, p)))
                    => ~ret.exit

\* the price sits on a stop that was moved to the entry: the stop and the
\* break-even condition both match, and the stop is reported
C25_Witness ==
    /\ Returned("should_exit_trade")
    /\ HourOf(args.current_time) < session_end
    /\ args.is_break_even
    /\ args.current_price = args.trade.stop_loss
    /\ args.trade.stop_loss = args.trade.break_even_price
    /\ ret.reason = "stop_loss"

\* C26: can_trade_today is true exactly when daily_trades < max_daily_trades,
\* daily_pnl < daily_target and daily_pnl > daily_max_loss.
C26_CanTradeIff ==
    Returned("can_trade_today") =>
        (ret <=> /\ daily_trades < config.max_daily_trades
                 /\ RLess(daily_pnl, RInt(config.daily_target))
                 /\ RLess(RInt(config.daily_max_loss), daily_pnl))

\* below the cap with the PnL exactly on the target: trading is refused
C26_Witness ==
    /\ Returned("can_trade_today")
    /\ daily_trades < config.max_daily_trades
    /\ daily_pnl = RInt(config.daily_target)
    /\ ret = FALSE

\* C27: the step that starts a day zeroes daily_pnl and daily_trades, so both
\* are zero before the first candle of the day; the day index advances by that
\* step only, and the trade count is lowered by no other step.
C27_DailyReset ==
    /\ [][(pc = "start" /\ pc' = "loop")
           => (daily_pnl' = RInt(0) /\ daily_trades' = 0)]_vars
    /\ []((pc = "loop" /\ timestamp = 0)
           => (daily_pnl = RInt(0) /\ daily_trades = 0))
    /\ [][(day' # day) => (pc = "start" /\ pc' = "loop" /\ day' = day + 1)]_vars
    /\ [][(daily_trades' < daily_trades) => (pc = "start" /\ pc' = "loop")]_vars

\* a trade is open on a day that follows a day on which the cap was reached
C27_Witness ==
    /\ Open
    /\ day > 1
    /\ Cardinality(RecordsOfDay(day - 1)) = config.max_daily_trades

\* the step iterates a candle whose LTF prefix is short or whose HTF prefix
\* is empty (ltf_len and htf_seen describe the prefixes of the last candle)
SkippedCandle ==
    /\ timestamp' # timestamp
    /\ pc' = "loop"
    /\ ltf_len' < MinLtfBars \/ ~htf_seen'

\* C28: a candle with fewer than MinLtfBars bars in its LTF prefix or with an
\* empty HTF prefix changes nothing: no trade is open before or after it, no
\* record is appended, no signal is computed, no stop is moved.
C28_ShortPrefixSkipped ==
    /\ []((ltf_len < MinLtfBars \/ ~htf_seen) => ~Open)
    /\ [][SkippedCandle
           => /\ ~Open /\ ~Open'
              /\ trades' = trades
              /\ signal' = signal
              /\ break_even_moved' = break_even_moved
              /\ daily_pnl' = daily_pnl
              /\ daily_trades' = daily_trades]_vars

\* a candle of the ORB hour that closed above the opening range was iterated
\* with HTF bars and a short LTF prefix, without an exception: no trade
C28_Witness ==
    /\ pc = "loop"
    /\ timestamp # 0
    /\ ltf_len < MinLtfBars
    /\ htf_seen
    /\ is_orb_window(timestamp)
    /\ ~IsNaN(orb_high)
    /\ last_close > orb_high
    /\ day \notin printed_errors
    /\ ~Open

\* C29: for a positive risk amount and entry # stop the size returned is
\* min(risk / |entry - stop|, risk / (0.01 * entry)); size * |entry - stop| is
\* at most the risk amount, and equal to it exactly when |entry - stop| is at
\* least 1% of the entry price.
C29_SizeFormula ==
    (/\ Returned("calculate_position_size")
     /\ config.risk_usdt > 0
     /\ args.entry_price # args.stop_loss)
    => LET d == Abs(args.entry_price - args.stop_loss)
           by_stop == Rat(config.risk_usdt, d)
           by_cap == Rat(100 * config.risk_usdt, args.entry_price)
       IN  /\ ret = (IF RLess(by_cap, by_stop) THEN by_cap ELSE by_stop)
           /\ RLeq(RMulInt(d, ret), RInt(config.risk_usdt))
           /\ (RMulInt(d, ret) = RInt(config.risk_usdt))
                  <=> (100 * d >= args.entry_price)

\* the cap bites: a stop 1 away from an entry of 101 is closer than 1%
C29_Witness ==
    /\ Returned("calculate_position_size")
    /\ config.risk_usdt > 0
    /\ args.entry_price = 101
    /\ Abs(args.entry_price - args.stop_loss) = 1
    /\ RLess(ret, RInt(config.risk_usdt))

\* rows i .. i + n - 1 of t are all losses
LossRunAt(t, i, n) == \A j \in i..(i + n - 1) : IsLoss(t[j])

\* C30: calculate_max_consecutive_losses returns the length of the longest
\* run of consecutive rows with PnL < 0 (a row with PnL >= 0 ends a run): a
\* run of that length exists and none longer; the result is 0 for an empty
\* ledger and at most the number of losing rows.
C30_LongestLossRun ==
    Returned("calculate_max_consecutive_losses") =>
        LET t == args.trades
        IN  /\ ret \in 0..Len(t)
            /\ \E i \in 1..(Len(t) - ret + 1) : LossRunAt(t, i, ret)
            /\ \A n \in (ret + 1)..Len(t) :
                   \A i \in 1..(Len(t) - n + 1) : ~LossRunAt(t, i, n)
            /\ t = <<>> => ret = 0
            /\ ret <= Len(SelectSeq(t, IsLoss))

\* a trade of PnL exactly 0 between two losses: the longest run is 1
C30_Witness ==
    /\ Returned("calculate_max_consecutive_losses")
    /\ Len(args.trades) = 3
    /\ IsLoss(args.trades[1])
    /\ args.trades[2].pnl_usdt = RInt(0)
    /\ IsLoss(args.trades[3])
    /\ ret = 1

\* ------------------------------------------------------------------ C31
\* the records are in ascending order of day and, within a day, of
\* non-decreasing exit time
LedgerOrdered ==
    \A i \in Ledger : \A j \in Ledger :
        i < j =>
            /\ trades[i].day_key <= trades[j].day_key
            /\ (trades[i].day_key = trades[j].day_key
                   => trades[i].exit_time <= trades[j].exit_time)

\* C31: the ledger is append-only and ordered: every step leaves each record
\* already in the ledger at its place and unchanged, and the records are in
\* ascending day order with non-decreasing exit times within a day.
C31_LedgerAppendOnly ==
    /\ []LedgerOrdered
    /\ [][\A i \in Ledger : (i \in DOMAIN trades') /\ (trades'[i] = trades[i])]_vars

\* a second record has been appended behind a record of the same day that
\* was closed earlier
C31_Witness ==
    /\ Len(trades) >= 2
    /\ trades[1].day_key = trades[2].day_key
    /\ trades[1].exit_time < trades[2].exit_time

\* ------------------------------------------------------------------ C32
\* the last bar of the prefix handed to get_trade_signal has its close
\* inside [low, high]
LastBarWellFormed ==
    args.low <= args.ltf.close /\ args.ltf.close <= args.high

\* C32: on an LTF prefix whose last candle is well-formed (low <= close <=
\* high) check_orb_conditions reports no valid ORB signal for either side,
\* and get_trade_signal returns no intent tagged orb.
C32_NoOrbOnWellFormedBars ==
    (Returned("get_trade_signal") /\ LastBarWellFormed)
    => /\ \A side \in {"long", "short"} : ~check_orb_conditions(args.ltf, side).ok
       /\ (ret # None => ret.strategy # "orb")

\* an 11:xx bar closing on its high, which is the top of the opening range,
\* with volume, ADX and ATR confirming and trading allowed: no intent
C32_Witness ==
    /\ Returned("get_trade_signal")
    /\ LastBarWellFormed
    /\ is_orb_window(args.ltf.ts)
    /\ can_trade_today(daily_pnl, daily_trades)
    /\ args.htf.has_close
    /\ args.ltf.close = args.high
    /\ args.ltf.close = args.ltf.orb_high
    /\ args.ltf.volume_ok
    /\ args.ltf.atr = 1
    /\ args.ltf.adx = 25
    /\ ret = None

LedgerOfDay(d) == SelectSeq(trades, LAMBDA r : r.day_key = d)

\* C35: during a day's simulation and after it daily_trades is the number of
\* records appended for the day so far and daily_pnl the sum of their
\* pnl_usdt; a trade in the open slot has no record yet and is counted in
\* neither, so the counters move only when a record is appended.
C35_CountersFollowLedger ==
    /\ daily_trades = Len(LedgerOfDay(day))
    /\ daily_pnl = SumPnl(LedgerOfDay(day))
    /\ Open => \A i \in Ledger : trades[i].entry_time # current_trade.entry_time

\* a second trade of the day has just been opened after a first one was
\* recorded with a loss: the counters show the first one only
C35_Witness ==
    /\ pc = "loop"
    /\ Open
    /\ current_trade.entry_time = timestamp
    /\ Len(LedgerOfDay(day)) = 1
    /\ daily_trades = 1
    /\ RLess(daily_pnl, RInt(0))

\* ------------------------------------------------------------------ C36
\* the exit price of record r lies at or beyond the level its reason names
BeyondLevel(r) ==
    /\ r.exit_reason = "stop_loss"
       => (IF r.side = "long" THEN r.exit_price <= r.sl ELSE r.exit_price >= r.sl)
    /\ r.exit_reason = "take_profit"
       => (IF r.side = "long" THEN r.exit_price >= r.tp ELSE r.exit_price <= r.tp)

C37_RecordStopAtClose ==
    /\ [][(Open /\ Appended)
          => /\ trades'[Len(trades')].sl = current_trade.stop_loss
             /\ break_even_moved
                => /\ trades'[Len(trades')].sl = trades'[Len(trades')].entry_price
                   /\ calculate_r_multiple(trades'[Len(trades')].entry_price,
                                           trades'[Len(trades')].exit_price,
                                           trades'[Len(trades')].sl,
                                           trades'[Len(trades')].side)
                          = ZeroDivision]_vars
    /\ []((pc = "done" /\ ret # ZeroDivisionError)
          => \A i \in Ledger :
                 trades[i].sl = trades[i].entry_price
                 => ret.r_multiple[i] = ZeroDivision)

\* run_backtest has returned a frame with a trade closed at the break-even
\* trigger: its sl is the entry price although the trade was opened with a
\* risk (its target is away from entry), and its R-multiple is undefined
C37_Witness ==
    /\ pc = "done"
    /\ ret # ZeroDivisionError
    /\ trades # <<>>
    /\ LastRecord.exit_reason = "break_even"
    /\ LastRecord.sl = LastRecord.entry_price
    /\ LastRecord.tp # LastRecord.entry_price
    /\ ret.r_multiple[Len(trades)] = ZeroDivision

\* ------------------------------------------------------------------ C38
\* record r is of a trade with a positive size whose target lies on the
\* profit side of entry and whose stop does not: the stop is the initial one,
\* on the loss side, or has been moved to entry
OpenedWithRisk(r) ==
    /\ RLess(RInt(0), r.position_size)
    /\ IF r.side = "long"
       THEN r.sl <= r.entry_price /\ r.entry_price < r.tp
       ELSE r.sl >= r.entry_price /\ r.entry_price > r.tp

\* C38: for a trade of positive size opened with its stop on the loss side
\* and its target on the profit side the exit reason fixes the sign of the
\* PnL: take_profit is a gain, stop_loss is no gain and a loss when the stop
\* was still the initial one, break_even is a gain and never 0.
C38_ReasonFixesPnlSign ==
    Returned("simulate_day")
    => \A i \in DOMAIN ret.a :
           OpenedWithRisk(ret.a[i])
           => /\ ret.a[i].exit_reason = "take_profit"
                 => RLess(RInt(0), ret.a[i].pnl_usdt)
              /\ ret.a[i].exit_reason = "stop_loss"
                 => /\ RLeq(ret.a[i].pnl_usdt, RInt(0))
                    /\ ret.a[i].sl # ret.a[i].entry_price
                       => RLess(ret.a[i].pnl_usdt, RInt(0))
              /\ ret.a[i].exit_reason = "break_even"
                 => RLess(RInt(0), ret.a[i].pnl_usdt)

\* a trade whose stop had been moved to entry was closed by a candle closing
\* exactly at entry: the reason is stop_loss and the PnL is 0
C38_Witness ==
    /\ Returned("simulate_day")
    /\ Len(ret.a) = 1
    /\ OpenedWithRisk(ret.a[1])
    /\ ret.a[1].exit_reason = "stop_loss"
    /\ ret.a[1].sl = ret.a[1].entry_price
    /\ ret.a[1].exit_price = ret.a[1].entry_price
    /\ ret.a[1].pnl_usdt = RInt(0)

\* ------------------------------------------------------------------ C39
\* the bars after the entry bar in a simulate_trade_exit call
BarsAfterEntry == RemainingData(args.day_data, args.trade_params.entry_time)

\* bar b touches the target / the stop of the call's trade
TouchesTarget(b) ==
    IF args.side = "long" THEN b.high >= args.trade_params.take_profit
    ELSE b.low <= args.trade_params.take_profit
TouchesStop(b) ==
    IF args.side = "long" THEN b.low <= args.trade_params.stop_loss
    ELSE b.high >= args.trade_params.stop_loss

\* C39: in the simplified engine the take-profit takes precedence over the
\* stop-loss whatever the order in time: when a bar after the entry touches
\* the target, simulate_trade_exit returns the reason take_profit, the target
\* as exit price and the time of the first bar touching the target, even
\* when an earlier bar has touched the stop.
C39_TargetBeforeStop ==
    Returned("simulate_trade_exit")
    => \A i \in DOMAIN BarsAfterEntry :
           (/\ TouchesTarget(BarsAfterEntry[i])
            /\ \A j \in 1..(i - 1) : ~TouchesTarget(BarsAfterEntry[j]))
           => /\ ret.exit_reason = "take_profit"
              /\ ret.exit_price = args.trade_params.take_profit
              /\ ret.exit_time = BarsAfterEntry[i].ts

\* the first bar after the entry touches the stop only, the second one the
\* target: the exit is a take_profit at the time of the second bar
C39_Witness ==
    /\ Returned("simulate_trade_exit")
    /\ Len(BarsAfterEntry) = 2
    /\ TouchesStop(BarsAfterEntry[1])
    /\ ~TouchesTarget(BarsAfterEntry[1])
    /\ TouchesTarget(BarsAfterEntry[2])
    /\ ret.exit_reason = "take_profit"
    /\ ret.exit_time = BarsAfterEntry[2].ts
    /\ RLess(RInt(0), ret.pnl_usdt)

====
